---------------------------- MODULE Spec2Model ----------------------------
(***************************************************************************)
(* Model of the audio playback engine of Doorchime-CR2                     *)
(* (Core/Libraries/audio_engine.c): the playback state machine, the        *)
(* ping-pong buffer refill driven by the DMA half/full-complete            *)
(* interrupts, the chunk decoder and the fade envelope.                    *)
(*                                                                         *)
(* The C globals are the fields of the record eng, the I2S/DMA peripheral  *)
(* is the record hal, the foreground's position inside an API function is  *)
(* the record fg, and obs holds observations of the run (history           *)
(* variables: callback invocations, decoded source samples, the last API   *)
(* return value).  A C function is an operator from a machine record (the  *)
(* fields of eng, hal and obs together) to the machine record after the    *)
(* call.  The interrupt handler runs atomically (interrupts of the same    *)
(* priority do not nest and the foreground cannot preempt it); the         *)
(* foreground functions that read or write shared variables more than once *)
(* are split where an interrupt can fall between the accesses.             *)
(*                                                                         *)
(* Scale: the buffer holds 4 * BufFrames slots (4 * 512 in the source).    *)
(* Pointers are element addresses; the source array starts at SrcBase.     *)
(* Fade times are in milliseconds (float seconds in the source).           *)
(* A sample's value is represented by the envelope stage's output for a    *)
(* full-scale input (RefLevel); the filters before it are represented by   *)
(* the per-channel filter-state tag.                                       *)
(***************************************************************************)
EXTENDS Integers, Sequences, FiniteSets, TLC

(* ------------------------------- bounds -------------------------------- *)
BufFrames == 2      \* frames per half buffer (HALFCHUNK_SZ; 512 in the source)
MaxLen    == 7      \* largest sample_set_sz passed to PlaySample
SrcBase   == 1      \* address of the first element of the source array
MaxPauses == 1      \* pauses taking effect in one session
MaxSessions == 1    \* successful PlaySample calls
MaxConfigCalls == 1 \* fade-time setter calls before the first session

(* ------------------------ constants of the source ---------------------- *)
Q16_SCALE            == 65536
DC_FILTER_ALPHA      == 64225
SOFT_DC_FILTER_ALPHA == 65216
LPF_MEDIUM           == 49152
LPF_AGGRESSIVE       == 40960
MaxMakeupGainQ16     == 131072  \* 2.0 in Q16, the largest gain the setters accept
LPF_Off        == 0
LPF_VerySoft   == 1
LPF_Soft       == 2
LPF_Medium     == 3
LPF_Firm       == 4
LPF_Aggressive == 5
LPF_Custom     == 6
LPF_VERY_SOFT  == 61440
LPF_SOFT       == 57344
LPF_FIRM       == 45056
LPF_16BIT_VERY_SOFT  == 40960
LPF_16BIT_SOFT       == 52429
LPF_16BIT_MEDIUM     == 57344
LPF_16BIT_FIRM       == 60416
LPF_16BIT_AGGRESSIVE == 63488
LPF_MAKEUP_GAIN_Q16       == 70779
LPF_16BIT_MAKEUP_GAIN_Q16 == 65536  \* 1.0: "Default is 1.0 (No gain)"
AIR_EFFECT_SHELF_GAIN     == 98304
AIR_EFFECT_SHELF_GAIN_MAX == 131072
AIR_EFFECT_PRESET_COUNT   == 3      \* entries of air_effect_presets_db
SrcHalfChunkSz  == 512     \* HALFCHUNK_SZ as the source defines it (PB_BUFF_SZ 2048)
PB_BUFF_SZ      == 4 * BufFrames
CHUNK_SZ        == PB_BUFF_SZ \div 2
HALFCHUNK_SZ    == CHUNK_SZ \div 2
FIRST           == 0
SECOND          == 1
NULL            == 0
MIDPOINT_S16    == 0
SAMPLE16_MIDPOINT == 0
AUDIO_INT16_MAX == 32767
AUDIO_INT16_MIN == -32768
RefLevel        == AUDIO_INT16_MAX

PB_States == {"PB_Idle", "PB_Error", "PB_Playing", "PB_Pausing", "PB_Paused",
              "PB_PlayingFailed"}
Modes     == {"Mode_stereo", "Mode_mono"}
Channels  == {"CHANNEL_LEFT", "CHANNEL_RIGHT"}

(* inputs the environment draws from *)
PlayArg(p, n, d, m) ==
  [sample_to_play |-> p, sample_set_sz |-> n, sample_depth |-> d, mode |-> m]

PlayArgs ==
  {PlayArg(SrcBase, n, d, m) : n \in 1 .. MaxLen, d \in {8, 16}, m \in Modes}
    \cup {PlayArg(SrcBase, MaxLen, 12, "Mode_mono"),
          PlayArg(SrcBase, MaxLen, 16, "Mode_other"),
          PlayArg(SrcBase, 0, 16, "Mode_mono"),
          PlayArg(NULL, MaxLen, 8, "Mode_stereo")}
Speeds      == {20}
FadeInTimeArgs     == {200}
FadeOutTimeArgs    == {100}
PauseFadeTimeArgs  == {150}
ResumeFadeTimeArgs == {50}
PlaybackSpeedArgs  == {40}
UBOutcomes  == {AUDIO_INT16_MIN, 0, AUDIO_INT16_MAX}

(* --------------------- 32-bit unsigned arithmetic ---------------------- *)
(* A uint32_t value v is held as v when v < 2^31 and as v - 2^32 when      *)
(* v >= 2^31 (two's complement), so the wrap of a small negative           *)
(* difference is the difference itself.                                    *)
INT32_MAX == 2147483647

U32Lt(a, b) == IF (a < 0) = (b < 0) THEN a < b ELSE b < 0
U32Le(a, b) == a = b \/ U32Lt(a, b)
U32Gt(a, b) == U32Lt(b, a)
U32Ge(a, b) == U32Le(b, a)

(* a / f, unsigned, f > 0 *)
U32Div(a, f) ==
  IF a >= 0 THEN a \div f
  ELSE IF f = 1 THEN a
  ELSE LET u == (INT32_MAX + a) + 1     \* a + 2^31, in 0 .. 2^31 - 1
       IN  (u \div f) + (INT32_MAX \div f)
             + (((u % f) + (INT32_MAX % f) + 1) \div f)

(* C's sequencing: evaluate e to a value, then F on that value *)
Bind(e, F(_)) == CHOOSE r \in {F(x) : x \in {e}} : TRUE

(* ---------------------------- fade envelope ---------------------------- *)
Clamp16(x) == IF x > AUDIO_INT16_MAX THEN AUDIO_INT16_MAX
              ELSE IF x < AUDIO_INT16_MIN THEN AUDIO_INT16_MIN ELSE x

(* the conversion without its final test for a count of zero *)
FadeTimeToSamples_NoMinimum(ms, speed) ==
  LET t == IF ms < 1 THEN 1 ELSE IF ms > 5000 THEN 5000 ELSE ms
  IN  (t * speed + 500) \div 1000

FadeTimeToSamples(ms, speed) ==
  LET t == IF ms < 1 THEN 1 ELSE IF ms > 5000 THEN 5000 ELSE ms
      samples == (t * speed + 500) \div 1000
  IN  IF samples = 0 THEN 1 ELSE samples

RecalculateFadeSamples(s) ==
  [s EXCEPT !.fadein_samples        = FadeTimeToSamples(s.fadein_time_ms, s.I2S_PlaybackSpeed),
            !.fadeout_samples       = FadeTimeToSamples(s.fadeout_time_ms, s.I2S_PlaybackSpeed),
            !.pause_fadeout_samples = FadeTimeToSamples(s.pause_fadeout_time_ms, s.I2S_PlaybackSpeed),
            !.pause_fadein_samples  = FadeTimeToSamples(s.pause_fadein_time_ms, s.I2S_PlaybackSpeed)]

(* ( sample * ( ( n * n ) / fade_total ) ) / fade_total in 64-bit signed   *)
(* arithmetic, then the clamp to int16_t.  The quotient is taken in two    *)
(* steps so that no intermediate exceeds the checker's integers; it is     *)
(* exact for n up to 46340.  A larger n (a wrapped start level) makes the  *)
(* product exceed the clamp, or overflow int64_t for the largest values:   *)
(* ub stands for the value the build produces there.                       *)
FadeScale(sample, n, fade_total, ub) ==
  IF n >= 0 /\ n <= 46340
  THEN LET fade_mult == (n * n) \div fade_total
           q   == fade_mult \div fade_total
           r   == fade_mult % fade_total
           mag == IF sample < 0 THEN -sample ELSE sample
       IN  IF q >= 65536
           THEN (IF sample > 0 THEN AUDIO_INT16_MAX
                 ELSE IF sample < 0 THEN AUDIO_INT16_MIN ELSE 0)
           ELSE LET m == mag * q + ((mag * r) \div fade_total)
                IN  Clamp16(IF sample < 0 THEN -m ELSE m)
  ELSE ub

ApplyFadeIn(s, sample) ==
  IF s.fadein_samples_remaining > 0
  THEN LET fade_total == IF s.pb_state = "PB_Playing"
                            /\ s.fadein_samples_remaining <= s.fadein_samples
                         THEN s.fadein_samples ELSE s.fadein_samples_remaining
           progress   == fade_total - s.fadein_samples_remaining
       IN  FadeScale(sample, progress, fade_total, sample)
  ELSE sample

(* remaining = (uint32_t)( end - p ) *)
RemainingInFile(s) ==
  IF s.pb_mode = 16 THEN s.pb_end16_ptr - s.pb_p16_ptr
                    ELSE s.pb_end8_ptr - s.pb_p8_ptr

ApplyFadeOut(s, sample, ub) ==
  IF s.pb_state = "PB_Pausing" /\ s.fadeout_samples_remaining # 0
  THEN FadeScale(sample, s.fadeout_samples_remaining, s.pause_fadeout_samples, ub)
  ELSE IF s.pb_state = "PB_Playing"
       THEN LET remaining_in_file == RemainingInFile(s)
            IN  IF U32Gt(remaining_in_file, 0)
                   /\ U32Le(remaining_in_file, s.fadeout_samples)
                THEN FadeScale(sample, remaining_in_file, s.fadeout_samples, ub)
                ELSE sample
       ELSE sample

(* the counter decremented without the saturation test *)
CountDown_Wrapping(x, n) == IF x = 0 THEN 0 ELSE x - n

(* x > n ? x - n : 0 on a uint32_t counter that is not 0 *)
CountDown(x, n) == IF x = 0 THEN 0 ELSE IF U32Gt(x, n) THEN x - n ELSE 0

UpdateFadeCounters(s, samples_processed) ==
  [s EXCEPT !.samples_remaining         = CountDown(@, samples_processed),
            !.fadein_samples_remaining  = CountDown(@, samples_processed),
            !.fadeout_samples_remaining = CountDown(@, samples_processed)]

(* ------------------------------- state --------------------------------- *)
VARIABLES eng, hal, fg, obs

vars == <<eng, hal, fg, obs>>

Silence == [addr |-> NULL, env |-> MIDPOINT_S16]

BIQUAD_WARMUP_CYCLES == 16

(* AudioFilterChannelState: hist is "zero" while every member other than   *)
(* the lpf16 history is 0 and "run" once a filter chain has run on the     *)
(* channel; the lpf16 history is the result of lpf16_cycles iterations of  *)
(* the biquad on the sample at lpf16_on (0 iterations: all zero)           *)
ZeroChannelState == [hist |-> "zero", lpf16_on |-> NULL, lpf16_cycles |-> 0]

ZeroFilterState == [c \in Channels |-> ZeroChannelState]

DefaultFilterCfg ==
  [enable_16bit_biquad_lpf   |-> 1,
   enable_filter_chain_16bit |-> 1,
   enable_filter_chain_8bit  |-> 1]

InitEng ==
  [pb_state                     |-> "PB_Idle",
   pb_mode                      |-> 0,
   channels                     |-> "Mode_mono",
   p_advance                    |-> 0,
   half_to_fill                 |-> FIRST,
   pb_p8_ptr                    |-> NULL,
   pb_end8_ptr                  |-> NULL,
   pb_p16_ptr                   |-> NULL,
   pb_end16_ptr                 |-> NULL,
   I2S_PlaybackSpeed            |-> 22025,
   samples_remaining            |-> 0,
   fadein_samples_remaining     |-> 0,
   fadeout_samples_remaining    |-> 0,
   fadein_time_ms               |-> 150,
   fadeout_time_ms              |-> 150,
   pause_fadeout_time_ms        |-> 100,
   pause_fadein_time_ms         |-> 100,
   fadein_samples               |-> 3300,
   fadeout_samples              |-> 3300,
   pause_fadeout_samples        |-> 2200,
   pause_fadein_samples         |-> 2200,
   paused_sample_ptr            |-> NULL,
   stop_requested               |-> 0,
   playback_end_callback_called |-> 0,
   pb_buffer                    |-> [i \in 0 .. PB_BUFF_SZ - 1 |-> Silence],
   filter_state                 |-> ZeroFilterState,
   filter_cfg                   |-> DefaultFilterCfg,
   AudioEngine_ReadVolume       |-> NULL]

(* the I2S peripheral's circular DMA transfer of pb_buffer *)
InitHal ==
  [dma_running |-> FALSE,      \* a transfer started by HAL_I2S_Transmit_DMA is active
   dma_next    |-> FIRST,      \* FIRST: the half-complete event is next, SECOND: full-complete
   in_isr      |-> FALSE]      \* execution is inside a completion callback

InitObs ==
  [cb_count    |-> 0,          \* AudioEngine_OnPlaybackEnd invocations in this session
   decoded     |-> <<>>,       \* source samples decoded in this session, in decode order
   first_filter |-> ZeroFilterState, \* filter_state when the session's first sample was decoded
   session     |-> [sz |-> 0, depth |-> 0, mode |-> "Mode_mono", base |-> NULL],
   pauses      |-> 0,          \* PausePlayback calls that took effect in this session
   pause_raced |-> FALSE,      \* an interrupt ran between a PausePlayback's check and its writes
   stops       |-> 0,          \* 1 once StopPlayback has set the flag in this session
   shutdown    |-> FALSE,      \* ShutDownAudio ended this session
   stop_in_isr |-> FALSE,      \* HAL_I2S_DMAStop was called inside a callback
   stopped_by  |-> "none",     \* the function that last stopped the DMA
   sessions    |-> 0,          \* successful PlaySample calls so far
   cfgs        |-> 0,          \* fade-time setter calls so far
   ret         |-> [op |-> "none", val |-> "PB_Idle"]]

InitFg == [pc |-> "main", level |-> 0]

Init ==
  /\ eng = InitEng
  /\ hal = InitHal
  /\ obs = InitObs
  /\ fg  = InitFg

(* the machine record the C functions work on, and its write-back *)
Machine == eng @@ hal @@ obs

Commit(m) ==
  \E v \in {m} :
    /\ eng' = [k \in DOMAIN eng |-> v[k]]
    /\ hal' = [k \in DOMAIN hal |-> v[k]]
    /\ obs' = [k \in DOMAIN obs |-> v[k]]

(* obs.ret is the value returned by the call that ended in the last step *)
NoRet == [op |-> "none", val |-> "PB_Idle"]

Returned(m, op, val) == [m EXCEPT !.ret = [op |-> op, val |-> val]]

Quiet(m) == [m EXCEPT !.ret = NoRet]

Skip == Commit(Quiet(Machine))

(* ------------------------- hardware and callbacks ---------------------- *)
HAL_I2S_DMAStop(s, caller) ==
  [s EXCEPT !.dma_running = FALSE,
            !.stop_in_isr = @ \/ s.in_isr,
            !.stopped_by  = caller]

HAL_I2S_Transmit_DMA(s, hal_ok) ==
  IF hal_ok THEN [s EXCEPT !.dma_running = TRUE, !.dma_next = FIRST] ELSE s

AudioEngine_OnPlaybackEnd(s) ==
  [s EXCEPT !.cb_count = IF @ < 2 THEN @ + 1 ELSE @]

MIDPOINT_FILL_BUFFER(s) ==
  [s EXCEPT !.pb_buffer = [i \in 0 .. PB_BUFF_SZ - 1 |-> Silence]]

(* PlaySample without the reset of the filter state *)
ResetAllFilterState_Keep(s) == s

ResetAllFilterState(s) == [s EXCEPT !.filter_state = ZeroFilterState]

(* BIQUAD_WARMUP_CYCLES passes of ApplyLowPassFilter16Bit on both channels *)
WarmupBiquadFilter16Bit(s, sample) ==
  [s EXCEPT !.filter_state =
     [c \in Channels |-> [@[c] EXCEPT !.lpf16_on     = sample,
                                      !.lpf16_cycles = @ + BIQUAD_WARMUP_CYCLES]]]

ResetPlaybackState(s) ==
  [s EXCEPT !.pb_mode                      = 0,
            !.paused_sample_ptr            = NULL,
            !.samples_remaining            = 0,
            !.fadeout_samples_remaining    = 0,
            !.fadein_samples_remaining     = 0,
            !.stop_requested               = 0,
            !.playback_end_callback_called = 0]

StopDmaAndResetPlaybackState(s, reset_state, caller) ==
  LET s1 == HAL_I2S_DMAStop(s, caller)
  IN  IF reset_state # 0 THEN ResetPlaybackState(s1) ELSE s1

NotifyPlaybackEnd(s) ==
  IF s.playback_end_callback_called = 0
  THEN AudioEngine_OnPlaybackEnd([s EXCEPT !.playback_end_callback_called = 1])
  ELSE s

(* the cleanup without the DMA stop and without the guard on the callback *)
EndPlaybackCleanup_Unguarded(s) ==
  AudioEngine_OnPlaybackEnd(MIDPOINT_FILL_BUFFER([s EXCEPT !.pb_state = "PB_Idle"]))

EndPlaybackCleanup(s) ==
  LET s1 == MIDPOINT_FILL_BUFFER([s EXCEPT !.pb_state = "PB_Idle"])
      s2 == StopDmaAndResetPlaybackState(s1, s1.stop_requested, "EndPlaybackCleanup")
  IN  NotifyPlaybackEnd(s2)

(* the immediate stop without the write of the state *)
StopImmediate_KeepState(s) ==
  LET s1 == StopDmaAndResetPlaybackState(s, 1, "StopImmediate")
  IN  NotifyPlaybackEnd(MIDPOINT_FILL_BUFFER(s1))

StopImmediate(s) ==
  LET s1 == StopDmaAndResetPlaybackState([s EXCEPT !.pb_state = "PB_Idle"], 1,
                                         "StopImmediate")
  IN  NotifyPlaybackEnd(MIDPOINT_FILL_BUFFER(s1))

(* ----------------------------- chunk decoder --------------------------- *)
ChainEnabled(s, depth) ==
  IF depth = 16 THEN s.filter_cfg.enable_filter_chain_16bit = 1
                ELSE s.filter_cfg.enable_filter_chain_8bit = 1

(* ApplyFilterChain16Bit / ApplyFilterChain8Bit: the filters run on the    *)
(* channel's state, then ApplyPostFilters applies the envelope.            *)
ApplyFilterChain(s, sample, channel_id, ub) ==
  [st  |-> [s EXCEPT !.filter_state[channel_id].hist = "run"],
   out |-> Bind(ApplyFadeIn(s, sample), LAMBDA faded : ApplyFadeOut(s, faded, ub))]

(* the decode of one channel without the test against the end pointer *)
DecodeSample_NoEndCheck(s, depth, channel_id, input, ub) ==
  Bind(IF ChainEnabled(s, depth)
       THEN ApplyFilterChain(s, RefLevel, channel_id, ub)
       ELSE [st |-> s, out |-> RefLevel],
       LAMBDA c :
         LET slot == [addr |-> input, env |-> c.out]
         IN  [st  |-> [c.st EXCEPT !.decoded = Append(@, slot),
                                !.first_filter = IF s.decoded = <<>>
                                                 THEN s.filter_state ELSE @],
              out |-> slot])

(* one channel of one output frame: the value written for source address input *)
DecodeSample(s, depth, channel_id, input, ub) ==
  LET end == IF depth = 16 THEN s.pb_end16_ptr ELSE s.pb_end8_ptr
  IN  IF input >= end
      THEN [st |-> s, out |-> [addr |-> NULL, env |-> SAMPLE16_MIDPOINT]]
      ELSE Bind(IF ChainEnabled(s, depth)
                THEN ApplyFilterChain(s, RefLevel, channel_id, ub)
                ELSE [st |-> s, out |-> RefLevel],
                LAMBDA c :
                  LET slot == [addr |-> input, env |-> c.out]
                  IN  [st  |-> [c.st EXCEPT !.decoded = Append(@, slot),
                                !.first_filter = IF s.decoded = <<>>
                                                 THEN s.filter_state ELSE @],
                       out |-> slot])

RECURSIVE ChunkLoop(_, _, _, _, _)
ChunkLoop(s, depth, input, i, ub) ==
  IF i = HALFCHUNK_SZ THEN s
  ELSE LET output == IF s.half_to_fill = SECOND THEN CHUNK_SZ ELSE 0
           mono   == s.channels = "Mode_mono"
           samples_processed == IF s.channels = "Mode_stereo" THEN 2 ELSE 1
       IN  Bind(DecodeSample(s, depth, "CHANNEL_LEFT", input, ub), LAMBDA L :
           Bind(IF mono THEN L
                ELSE DecodeSample(L.st, depth, "CHANNEL_RIGHT", input + 1, ub), LAMBDA R :
           Bind(UpdateFadeCounters(
                  [R.st EXCEPT !.pb_buffer[output + 2 * i]     = L.out,
                               !.pb_buffer[output + 2 * i + 1] = R.out],
                  samples_processed), LAMBDA s1 :
           ChunkLoop(s1, depth, IF mono THEN input + 1 ELSE input + 2, i + 1, ub))))

ProcessNextWaveChunk(s, chunk_p, ub) ==
  IF chunk_p = NULL THEN [st |-> s, ret |-> "PB_Error"]
  ELSE [st |-> ChunkLoop(s, 16, chunk_p, 0, ub), ret |-> "PB_Playing"]

ProcessNextWaveChunk_8_bit(s, chunk_p, ub) ==
  IF chunk_p = NULL THEN [st |-> s, ret |-> "PB_Error"]
  ELSE [st |-> ChunkLoop(s, 8, chunk_p, 0, ub), ret |-> "PB_Playing"]

AdvanceSamplePointer(s) ==
  IF s.pb_mode = 16
  THEN LET s1 == [s EXCEPT !.pb_p16_ptr = @ + s.p_advance]
       IN  IF s1.pb_p16_ptr >= s1.pb_end16_ptr
           THEN [s1 EXCEPT !.pb_state = "PB_Idle"] ELSE s1
  ELSE IF s.pb_mode = 8
  THEN LET s1 == [s EXCEPT !.pb_p8_ptr = @ + s.p_advance]
       IN  IF s1.pb_p8_ptr >= s1.pb_end8_ptr
           THEN [s1 EXCEPT !.pb_state = "PB_Idle"] ELSE s1
  ELSE s

(* --------------------------- interrupt handler -------------------------- *)
(* the stop request met in a playing state: the end pointer is pulled in   *)
ShortenForStop(s) ==
  IF s.stop_requested # 0 /\ s.pb_state # "PB_Idle" /\ s.pb_state # "PB_Pausing"
  THEN LET s1 == [s EXCEPT !.pb_state = "PB_Pausing"]
           remaining == RemainingInFile(s1)
       IN  IF s1.pb_mode = 16 /\ U32Gt(remaining, s1.fadeout_samples)
           THEN [s1 EXCEPT !.pb_end16_ptr = s1.pb_p16_ptr + s1.fadeout_samples]
           ELSE IF s1.pb_mode = 8 /\ U32Gt(remaining, s1.fadeout_samples)
           THEN [s1 EXCEPT !.pb_end8_ptr = s1.pb_p8_ptr + s1.fadeout_samples]
           ELSE s1
  ELSE s

RefillHalf(s, ub) ==
  IF s.pb_mode = 16 \/ s.pb_mode = 8
  THEN IF \/ (s.pb_mode = 16 /\ s.pb_p16_ptr >= s.pb_end16_ptr)
          \/ (s.pb_mode = 8  /\ s.pb_p8_ptr  >= s.pb_end8_ptr)
       THEN EndPlaybackCleanup(s)
       ELSE Bind(IF s.pb_mode = 16
                 THEN ProcessNextWaveChunk(s, s.pb_p16_ptr, ub)
                 ELSE ProcessNextWaveChunk_8_bit(s, s.pb_p8_ptr, ub),
                 LAMBDA r : IF r.ret # "PB_Playing" THEN r.st
                                                     ELSE AdvanceSamplePointer(r.st))
  ELSE MIDPOINT_FILL_BUFFER(s)

(* the handler without its test for the paused state *)
ProcessDMACallback_DecodesWhilePaused(s, which_half, ub) ==
  IF s.stop_requested # 0 /\ s.pb_state = "PB_Paused"
  THEN StopImmediate(s)
  ELSE Bind(ShortenForStop(s), LAMBDA s1 :
         IF s1.pb_state = "PB_Pausing"
            /\ U32Le(s1.fadeout_samples_remaining, HALFCHUNK_SZ)
         THEN [MIDPOINT_FILL_BUFFER(s1) EXCEPT !.pb_state = "PB_Paused"]
         ELSE Bind([s1 EXCEPT !.half_to_fill = which_half],
                   LAMBDA s2 : RefillHalf(s2, ub)))

ProcessDMACallback(s, which_half, ub) ==
  IF s.stop_requested # 0 /\ s.pb_state = "PB_Paused"
  THEN StopImmediate(s)
  ELSE Bind(ShortenForStop(s), LAMBDA s1 :
         IF s1.pb_state = "PB_Paused"
         THEN MIDPOINT_FILL_BUFFER(s1)
         ELSE IF s1.pb_state = "PB_Pausing"
                 /\ U32Le(s1.fadeout_samples_remaining, HALFCHUNK_SZ)
         THEN [MIDPOINT_FILL_BUFFER(s1) EXCEPT !.pb_state = "PB_Paused"]
         ELSE Bind([s1 EXCEPT !.half_to_fill = which_half],
                   LAMBDA s2 : RefillHalf(s2, ub)))

(* ------------------------------ PlaySample ------------------------------ *)
(* the parameter checks without the test of the length *)
ValidPlayArgs_NoSizeCheck(s, sample_to_play, sample_set_sz, sample_depth, mode) ==
  /\ ~ ( \/ (sample_depth # 16 /\ sample_depth # 8)
         \/ (mode # "Mode_mono" /\ mode # "Mode_stereo")
         \/ sample_to_play = NULL )
  /\ s.AudioEngine_ReadVolume # NULL

ValidPlayArgs(s, sample_to_play, sample_set_sz, sample_depth, mode) ==
  /\ ~ ( \/ (sample_depth # 16 /\ sample_depth # 8)
         \/ (mode # "Mode_mono" /\ mode # "Mode_stereo")
         \/ sample_set_sz = 0
         \/ sample_to_play = NULL )
  /\ s.AudioEngine_ReadVolume # NULL

(* pre-fill of both buffer halves before the DMA is started *)
PreFill(s, ub) ==
  IF s.pb_mode = 16
  THEN LET a == ProcessNextWaveChunk([s EXCEPT !.half_to_fill = FIRST], s.pb_p16_ptr, ub).st
           b == [a EXCEPT !.pb_p16_ptr = @ + a.p_advance, !.half_to_fill = SECOND]
           c == ProcessNextWaveChunk(b, b.pb_p16_ptr, ub).st
       IN  [c EXCEPT !.pb_p16_ptr = @ + c.p_advance, !.half_to_fill = FIRST]
  ELSE LET a == ProcessNextWaveChunk_8_bit([s EXCEPT !.half_to_fill = FIRST], s.pb_p8_ptr, ub).st
           b == [a EXCEPT !.half_to_fill = SECOND]
           c == ProcessNextWaveChunk_8_bit(b, b.pb_p8_ptr, ub).st
       IN  [c EXCEPT !.pb_p8_ptr = @ + c.p_advance, !.half_to_fill = FIRST]

NewSession(s, sample_to_play, sample_set_sz, sample_depth, mode) ==
  [s EXCEPT !.cb_count    = 0,
            !.decoded     = <<>>,
            !.session     = [sz |-> sample_set_sz, depth |-> sample_depth,
                             mode |-> mode, base |-> sample_to_play],
            !.sessions    = @ + 1,
            !.pauses      = 0,
            !.pause_raced = FALSE,
            !.stops       = 0,
            !.shutdown    = FALSE,
            !.stop_in_isr = FALSE]

(* PlaySample that leaves pb_state at PB_Playing when the DMA start fails *)
PlaySample_IgnoreHalStatus(s, sample_to_play, sample_set_sz, playback_speed, sample_depth, mode, hal_ok, ub) ==
  IF ~ ValidPlayArgs(s, sample_to_play, sample_set_sz, sample_depth, mode)
  THEN [st |-> s, ret |-> "PB_Error"]
  ELSE
    LET s1 == [s EXCEPT !.p_advance = IF mode = "Mode_stereo" THEN CHUNK_SZ
                                                              ELSE HALFCHUNK_SZ,
                        !.channels  = mode,
                        !.I2S_PlaybackSpeed = playback_speed]
        s2 == HAL_I2S_DMAStop(RecalculateFadeSamples(s1), "PlaySample")
        s3 == NewSession([s2 EXCEPT !.playback_end_callback_called = 0,
                                    !.stop_requested               = 0,
                                    !.paused_sample_ptr            = NULL],
                         sample_to_play, sample_set_sz, sample_depth, mode)
        s6 == IF sample_depth = 16
              THEN [s3 EXCEPT !.pb_p16_ptr   = sample_to_play,
                              !.pb_end16_ptr = sample_to_play + sample_set_sz,
                              !.pb_mode      = 16]
              ELSE [s3 EXCEPT !.pb_p8_ptr    = sample_to_play,
                              !.pb_end8_ptr  = sample_to_play + sample_set_sz,
                              !.pb_mode      = 8]
        s7 == [s6 EXCEPT !.samples_remaining         = sample_set_sz,
                         !.fadeout_samples_remaining = 0,
                         !.fadein_samples_remaining  = s6.fadein_samples]
        s8 == [PreFill(s7, ub) EXCEPT !.pb_state = "PB_Playing"]
    IN  [st |-> HAL_I2S_Transmit_DMA(s8, hal_ok), ret |-> "PB_Playing"]

PlaySample(s, sample_to_play, sample_set_sz, playback_speed, sample_depth, mode, hal_ok, ub) ==
  IF ~ ValidPlayArgs(s, sample_to_play, sample_set_sz, sample_depth, mode)
  THEN [st |-> s, ret |-> "PB_Error"]
  ELSE
    LET s1 == [s EXCEPT !.p_advance = IF mode = "Mode_stereo" THEN CHUNK_SZ
                                                              ELSE HALFCHUNK_SZ,
                        !.channels  = mode,
                        !.I2S_PlaybackSpeed = playback_speed]
        s2 == HAL_I2S_DMAStop(RecalculateFadeSamples(s1), "PlaySample")
        s3 == NewSession([s2 EXCEPT !.playback_end_callback_called = 0,
                                    !.stop_requested               = 0,
                                    !.paused_sample_ptr            = NULL],
                         sample_to_play, sample_set_sz, sample_depth, mode)
        s4 == ResetAllFilterState(s3)
        s5 == IF sample_depth = 16 /\ s4.filter_cfg.enable_16bit_biquad_lpf # 0
              THEN WarmupBiquadFilter16Bit(s4, sample_to_play) ELSE s4
        s6 == IF sample_depth = 16
              THEN [s5 EXCEPT !.pb_p16_ptr   = sample_to_play,
                              !.pb_end16_ptr = sample_to_play + sample_set_sz,
                              !.pb_mode      = 16]
              ELSE [s5 EXCEPT !.pb_p8_ptr    = sample_to_play,
                              !.pb_end8_ptr  = sample_to_play + sample_set_sz,
                              !.pb_mode      = 8]
        s7 == [s6 EXCEPT !.samples_remaining         = sample_set_sz,
                         !.fadeout_samples_remaining = 0,
                         !.fadein_samples_remaining  = s6.fadein_samples]
        s8 == [PreFill(s7, ub) EXCEPT !.pb_state = "PB_Playing"]
    IN  IF hal_ok
        THEN [st |-> HAL_I2S_Transmit_DMA(s8, TRUE), ret |-> "PB_Playing"]
        ELSE [st |-> [s8 EXCEPT !.pb_state = "PB_PlayingFailed"],
              ret |-> "PB_PlayingFailed"]

(* ------------------------- PausePlayback's level ------------------------ *)
(* the low and the high half of the product of two 16-bit values, taken   *)
(* by bytes so that no intermediate leaves the checker's integers          *)
U16MulLow(a, b)  == (a * (b % 256) + ((a * (b \div 256)) % 256) * 256) % 65536
U16MulHigh(a, b) == (a * (b \div 256) + ((a * (b % 256)) \div 256)) \div 256

(* uint32_t product, modulo 2^32; a uint32_t above INT32_MAX is held as    *)
(* the negative number of the same 32 bits                                 *)
U32Mul(a, b) ==
  LET al == a % 65536
      ah == (a \div 65536) % 65536
      bl == b % 65536
      bh == (b \div 65536) % 65536
      lo == U16MulLow(al, bl)
      hi == (U16MulHigh(al, bl) + U16MulLow(al, bh) + U16MulLow(ah, bl)) % 65536
  IN  (IF hi >= 32768 THEN hi - 65536 ELSE hi) * 65536 + lo

FadeoutStartLevel(s) ==
  IF s.fadein_samples_remaining > 0
  THEN LET fadein_progress == s.fadein_samples - s.fadein_samples_remaining
       IN  U32Div(U32Mul(fadein_progress, s.pause_fadeout_samples), s.fadein_samples)
  ELSE IF s.pb_mode = 16 \/ s.pb_mode = 8
  THEN LET remaining_in_file == RemainingInFile(s)
       IN  IF U32Gt(remaining_in_file, 0) /\ U32Le(remaining_in_file, s.fadeout_samples)
           THEN U32Div(U32Mul(remaining_in_file, s.pause_fadeout_samples),
                       s.fadeout_samples)
           ELSE s.pause_fadeout_samples
  ELSE s.pause_fadeout_samples

(* uint8_t GetPlaybackState( void ) { return pb_state; } *)
GetPlaybackState(s) == s.pb_state

(* ------------------------------- actions -------------------------------- *)
(* A completion interrupt: the handler runs to its end in one step. *)
Interrupt(which_half, ub) ==
  \E s \in {[Machine EXCEPT !.in_isr = TRUE]} :
    \E m \in {ProcessDMACallback(s, which_half, ub)} :
      /\ Commit(Quiet([m EXCEPT !.in_isr   = FALSE,
                          !.dma_next = IF which_half = FIRST THEN SECOND ELSE FIRST]))
      /\ UNCHANGED fg

(* the outcomes of the envelope arithmetic: one, unless the pause counter   *)
(* holds a wrapped start level                                             *)
Outcomes ==
  IF eng.fadeout_samples_remaining >= 0 /\ eng.fadeout_samples_remaining <= 46340
  THEN {AUDIO_INT16_MAX} ELSE UBOutcomes

HAL_I2S_TxHalfCpltCallback ==
  /\ hal.dma_running /\ hal.dma_next = FIRST
  /\ \E ub \in Outcomes : Interrupt(FIRST, ub)

HAL_I2S_TxCpltCallback ==
  /\ hal.dma_running /\ hal.dma_next = SECOND
  /\ \E ub \in Outcomes : Interrupt(SECOND, ub)

AtMain == fg.pc = "main"

(* the foreground starts a call while a session can still run: the run     *)
(* ends when the last session has ended (Idle, the DMA stopped)            *)
CanCall ==
  /\ AtMain
  /\ ~ (obs.sessions >= MaxSessions /\ ~ hal.dma_running /\ eng.pb_state = "PB_Idle")

(* the engine is initialised first, and the fade times are set before the  *)
(* first session                                                           *)
Configurable == obs.sessions = 0 /\ obs.cfgs < MaxConfigCalls

AudioEngine_Init ==
  /\ AtMain /\ obs.sessions = 0 /\ obs.cfgs = 0
  /\ \E dac_switch \in BOOLEAN, read_volume \in BOOLEAN, i2s_init \in BOOLEAN :
       IF ~ (dac_switch /\ read_volume /\ i2s_init)
       THEN Commit(Returned(Machine, "AudioEngine_Init", "PB_Error"))
       ELSE Commit(Returned(
              [ResetAllFilterState(Machine) EXCEPT
                 !.AudioEngine_ReadVolume    = 1,
                 !.pb_state                  = "PB_Idle",
                 !.pb_mode                   = 0,
                 !.fadeout_samples_remaining = 0,
                 !.fadein_samples_remaining  = 0,
                 !.paused_sample_ptr         = NULL,
                 !.filter_cfg                = DefaultFilterCfg],
              "AudioEngine_Init", "PB_Idle"))
  /\ UNCHANGED fg

PlaySampleCall ==
  /\ CanCall
  /\ \E a \in PlayArgs, playback_speed \in Speeds, hal_ok \in BOOLEAN :
       /\ ValidPlayArgs(eng, a.sample_to_play, a.sample_set_sz, a.sample_depth, a.mode)
            => obs.sessions < MaxSessions
       /\ \E r \in {PlaySample(Machine, a.sample_to_play, a.sample_set_sz,
                                playback_speed, a.sample_depth, a.mode, hal_ok,
                                AUDIO_INT16_MAX)} :
            Commit(Returned(r.st, "PlaySample", r.ret))
  /\ UNCHANGED fg

(* WaitForSampleEnd: while( pb_state == PB_Playing ) ; *)
WaitForSampleEnd_Enter ==
  /\ CanCall
  /\ fg' = [fg EXCEPT !.pc = "wait_loop"]
  /\ Skip

WaitForSampleEnd_Spin ==
  /\ fg.pc = "wait_loop"
  /\ fg' = [fg EXCEPT !.pc = IF eng.pb_state = "PB_Playing" THEN "wait_loop"
                                                             ELSE "wait_stop"]
  /\ Skip

(* if( pb_state != PB_Playing ) HAL_I2S_DMAStop( ... ); *)
WaitForSampleEnd_Stop ==
  /\ fg.pc = "wait_stop"
  /\ IF eng.pb_state # "PB_Playing"
     THEN Commit(Quiet(HAL_I2S_DMAStop(Machine, "WaitForSampleEnd")))
     ELSE Skip
  /\ fg' = [fg EXCEPT !.pc = "wait_ret"]

WaitForSampleEnd_Return ==
  /\ fg.pc = "wait_ret"
  /\ Commit(Returned(Machine, "WaitForSampleEnd", eng.pb_state))
  /\ fg' = [fg EXCEPT !.pc = "main"]

(* PausePlayback saving the position before it checks the state *)
PausePlayback_Check_SaveFirst ==
  /\ CanCall
  /\ IF eng.pb_state # "PB_Playing"
     THEN /\ Commit(Returned([Machine EXCEPT
                                !.paused_sample_ptr =
                                   IF eng.pb_mode = 16 THEN eng.pb_p16_ptr
                                                       ELSE eng.pb_p8_ptr],
                             "PausePlayback", eng.pb_state))
          /\ UNCHANGED fg
     ELSE /\ obs.pauses < MaxPauses
          /\ Commit([Quiet(Machine) EXCEPT
                       !.paused_sample_ptr =
                          IF eng.pb_mode = 16 THEN eng.pb_p16_ptr ELSE eng.pb_p8_ptr,
                       !.pauses = @ + 1])
          /\ fg' = [pc |-> "pause_write", level |-> FadeoutStartLevel(Machine)]

(* PausePlayback: the state check, the saved position and the start level *)
PausePlayback_Check ==
  /\ CanCall
  /\ IF eng.pb_state # "PB_Playing"
     THEN /\ Commit(Returned(Machine, "PausePlayback", eng.pb_state))
          /\ UNCHANGED fg
     ELSE /\ obs.pauses < MaxPauses
          /\ Commit([Quiet(Machine) EXCEPT
                       !.paused_sample_ptr =
                          IF eng.pb_mode = 16 THEN eng.pb_p16_ptr ELSE eng.pb_p8_ptr,
                       !.pauses = @ + 1])
          /\ fg' = [pc |-> "pause_write", level |-> FadeoutStartLevel(Machine)]

(* ... and its writes of the counters and of the state *)
PausePlayback_Write ==
  /\ fg.pc = "pause_write"
  /\ Commit(Returned([Machine EXCEPT !.fadein_samples_remaining  = 0,
                                     !.fadeout_samples_remaining = fg.level,
                                     !.pb_state                  = "PB_Pausing",
                                     !.pause_raced =
                                        \/ @
                                        \/ eng.pb_state # "PB_Playing"
                                        \/ eng.paused_sample_ptr #
                                             (IF eng.pb_mode = 16 THEN eng.pb_p16_ptr
                                                                  ELSE eng.pb_p8_ptr)],
                     "PausePlayback", "PB_Pausing"))
  /\ fg' = [pc |-> "main", level |-> 0]

(* ResumePlayback: the state check, the restored position and the state *)
ResumePlayback_Check ==
  /\ CanCall
  /\ IF eng.pb_state # "PB_Paused"
     THEN /\ Commit(Returned(Machine, "ResumePlayback", eng.pb_state))
          /\ UNCHANGED fg
     ELSE /\ Commit([Quiet(Machine) EXCEPT
                       !.pb_p16_ptr = IF eng.paused_sample_ptr # NULL /\ eng.pb_mode = 16
                                      THEN eng.paused_sample_ptr ELSE @,
                       !.pb_p8_ptr  = IF eng.paused_sample_ptr # NULL /\ eng.pb_mode # 16
                                      THEN eng.paused_sample_ptr ELSE @,
                       !.pb_state   = "PB_Playing"])
          /\ fg' = [fg EXCEPT !.pc = "resume_write"]

(* ... and its writes of the fade counters *)
ResumePlayback_Write ==
  /\ fg.pc = "resume_write"
  /\ Commit(Returned([Machine EXCEPT
                        !.fadeout_samples_remaining = 0,
                        !.fadein_samples_remaining  = eng.pause_fadein_samples],
                     "ResumePlayback", "PB_Playing"))
  /\ fg' = [fg EXCEPT !.pc = "main"]

(* StopPlayback ending the session from the caller's context *)
StopPlayback_Request_Direct ==
  /\ CanCall
  /\ IF eng.pb_state = "PB_Idle"
     THEN /\ Commit(Returned(Machine, "StopPlayback", "PB_Idle"))
          /\ UNCHANGED fg
     ELSE /\ Commit([Quiet(Machine) EXCEPT !.stop_requested = 1, !.stops = 1,
                                           !.pb_state = "PB_Idle"])
          /\ fg' = [fg EXCEPT !.pc = "stop_ret"]

(* StopPlayback: the check and the flag, then the read of the returned state *)
StopPlayback_Request ==
  /\ CanCall
  /\ IF eng.pb_state = "PB_Idle"
     THEN /\ Commit(Returned(Machine, "StopPlayback", "PB_Idle"))
          /\ UNCHANGED fg
     ELSE /\ Commit([Quiet(Machine) EXCEPT !.stop_requested = 1, !.stops = 1])
          /\ fg' = [fg EXCEPT !.pc = "stop_ret"]

StopPlayback_Return ==
  /\ fg.pc = "stop_ret"
  /\ Commit(Returned(Machine, "StopPlayback", eng.pb_state))
  /\ fg' = [fg EXCEPT !.pc = "main"]

ShutDownAudio ==
  /\ CanCall
  /\ LET s1 == StopDmaAndResetPlaybackState(Machine, 1, "ShutDownAudio")
         s2 == [MIDPOINT_FILL_BUFFER(s1) EXCEPT !.pb_state = "PB_Idle",
                                                !.shutdown = TRUE]
     IN  Commit(Returned(s2, "ShutDownAudio", "PB_Idle"))
  /\ UNCHANGED fg

SetFadeInTime ==
  /\ AtMain /\ Configurable
  /\ \E ms \in FadeInTimeArgs :
       Commit([Quiet(Machine) EXCEPT !.cfgs = @ + 1, !.fadein_time_ms = ms,
                 !.fadein_samples = FadeTimeToSamples(ms, eng.I2S_PlaybackSpeed)])
  /\ UNCHANGED fg

SetFadeOutTime ==
  /\ AtMain /\ Configurable
  /\ \E ms \in FadeOutTimeArgs :
       Commit([Quiet(Machine) EXCEPT !.cfgs = @ + 1, !.fadeout_time_ms = ms,
                 !.fadeout_samples = FadeTimeToSamples(ms, eng.I2S_PlaybackSpeed)])
  /\ UNCHANGED fg

SetPauseFadeTime ==
  /\ AtMain /\ Configurable
  /\ \E ms \in PauseFadeTimeArgs :
       Commit([Quiet(Machine) EXCEPT !.cfgs = @ + 1, !.pause_fadeout_time_ms = ms,
                 !.pause_fadeout_samples = FadeTimeToSamples(ms, eng.I2S_PlaybackSpeed)])
  /\ UNCHANGED fg

SetResumeFadeTime ==
  /\ AtMain /\ Configurable
  /\ \E ms \in ResumeFadeTimeArgs :
       Commit([Quiet(Machine) EXCEPT !.cfgs = @ + 1, !.pause_fadein_time_ms = ms,
                 !.pause_fadein_samples = FadeTimeToSamples(ms, eng.I2S_PlaybackSpeed)])
  /\ UNCHANGED fg

(* "Not to be use mid-playback": called before the first session *)
SetPlaybackSpeed ==
  /\ AtMain /\ Configurable
  /\ \E speed \in PlaybackSpeedArgs :
       Commit([Returned(Machine, "SetPlaybackSpeed", eng.pb_state)
                 EXCEPT !.cfgs = @ + 1, !.I2S_PlaybackSpeed = speed])
  /\ UNCHANGED fg

Next ==
  \/ HAL_I2S_TxHalfCpltCallback
  \/ HAL_I2S_TxCpltCallback
  \/ AudioEngine_Init
  \/ PlaySampleCall
  \/ WaitForSampleEnd_Enter
  \/ WaitForSampleEnd_Spin
  \/ WaitForSampleEnd_Stop
  \/ WaitForSampleEnd_Return
  \/ PausePlayback_Check
  \/ PausePlayback_Write
  \/ ResumePlayback_Check
  \/ ResumePlayback_Write
  \/ StopPlayback_Request
  \/ StopPlayback_Return
  \/ ShutDownAudio
  \/ SetFadeInTime
  \/ SetFadeOutTime
  \/ SetPauseFadeTime
  \/ SetResumeFadeTime
  \/ SetPlaybackSpeed

Spec == Init /\ [][Next]_vars

TypeOK ==
  /\ eng.pb_state \in PB_States
  /\ eng.pb_mode \in {0, 8, 16}
  /\ fg.pc \in {"main", "wait_loop", "wait_stop", "wait_ret", "pause_write",
                "resume_write", "stop_ret"}

(* the interrupts arrive for as long as the circular DMA transfer runs *)
LiveSpec ==
  /\ Spec
  /\ WF_vars(HAL_I2S_TxHalfCpltCallback)
  /\ WF_vars(HAL_I2S_TxCpltCallback)

(* ---------------- the pause start level at the source's scale ----------- *)
(* The envelope of a frame is what the filter chain makes of a full-scale  *)
(* sample (ApplyPostFilters: ApplyFadeIn, then ApplyFadeOut).              *)
FrameGain(s) == ApplyFilterChain(s, RefLevel, "CHANNEL_LEFT", AUDIO_INT16_MAX).out

BenchSpeeds      == {8000, 22025}
BenchFadeMs      == {100, 150, 1000}      \* start fade-in and end fade-out times
BenchPauseFadeMs == {50, 100}             \* pause fade-out times
PausePcts        == {0, 25, 50, 75, 99}   \* how far the interrupted fade has run

(* a playing 16-bit session at the last frame of the chunk decoded before a *)
(* pause: pct % into the start fade-in (kind "fadein", the end of the data  *)
(* far away), or pct % into the end-of-data fade-out (kind "fadeout")       *)
PausePoint(speed, kind, pct, mode, fade_ms, pause_ms) ==
  LET sp   == IF mode = "Mode_stereo" THEN 2 ELSE 1
      adv  == sp * SrcHalfChunkSz
      s0   == RecalculateFadeSamples(
                [InitEng EXCEPT !.AudioEngine_ReadVolume = 1,
                                !.I2S_PlaybackSpeed      = speed,
                                !.fadein_time_ms         = fade_ms,
                                !.fadeout_time_ms        = fade_ms,
                                !.pause_fadeout_time_ms  = pause_ms,
                                !.pb_state               = "PB_Playing",
                                !.pb_mode                = 16,
                                !.channels               = mode,
                                !.p_advance              = adv,
                                !.pb_p16_ptr             = SrcBase])
      done == sp * (((pct * s0.fadein_samples) \div 100) \div sp)
      prog == IF done < sp THEN sp ELSE done
      left == s0.fadeout_samples - ((pct * s0.fadeout_samples) \div 100)
  IN  IF kind = "fadein"
      THEN [s0 EXCEPT !.fadein_samples_remaining = s0.fadein_samples - prog + sp,
                      !.pb_end16_ptr = SrcBase + 2 * s0.fadeout_samples + 4 * adv]
      ELSE [s0 EXCEPT !.fadein_samples_remaining = 0,
                      !.pb_end16_ptr = SrcBase + adv + left]

PauseLevelInit ==
  /\ \E speed \in BenchSpeeds, kind \in {"fadein", "fadeout"}, pct \in PausePcts,
        mode \in Modes, fade_ms \in BenchFadeMs, pause_ms \in BenchPauseFadeMs :
       /\ eng = PausePoint(speed, kind, pct, mode, fade_ms, pause_ms)
       /\ obs = [InitObs EXCEPT !.sessions = 1]
                  @@ [bench_pc |-> "last", kind |-> kind, pct |-> pct,
                      gain_before |-> 0, gain_pause |-> 0]
  /\ hal = [InitHal EXCEPT !.dma_running = TRUE]
  /\ fg  = InitFg

(* the last frame of the chunk decoded before the pause: its envelope, the *)
(* counters, and the pointer moved on at the end of the chunk              *)
PauseLevel_LastFrame ==
  /\ obs.bench_pc = "last"
  /\ \E g \in {FrameGain(Machine)} :
       Commit([AdvanceSamplePointer(
                 UpdateFadeCounters(Machine,
                                    IF eng.channels = "Mode_stereo" THEN 2 ELSE 1))
                 EXCEPT !.gain_before = g, !.bench_pc = "pause"])
  /\ UNCHANGED fg

PauseLevel_PauseCheck ==
  /\ obs.bench_pc = "pause" /\ eng.pb_state = "PB_Playing"
  /\ PausePlayback_Check

PauseLevel_PauseWrite ==
  /\ obs.bench_pc = "pause"
  /\ PausePlayback_Write

(* the envelope at the start level PausePlayback has left in the counter *)
PauseLevel_FirstFrame ==
  /\ obs.bench_pc = "pause" /\ eng.pb_state = "PB_Pausing" /\ AtMain
  /\ Commit([Machine EXCEPT
               !.gain_pause = FadeScale(RefLevel, eng.fadeout_samples_remaining,
                                        eng.pause_fadeout_samples, AUDIO_INT16_MAX),
               !.bench_pc   = "done"])
  /\ UNCHANGED fg

PauseLevelNext ==
  \/ PauseLevel_LastFrame
  \/ PauseLevel_PauseCheck
  \/ PauseLevel_PauseWrite
  \/ PauseLevel_FirstFrame

PauseLevelSpec == PauseLevelInit /\ [][PauseLevelNext]_vars

(* ------------------ the fades, frame by frame, at the source's scale ---- *)
FadeBenchSpeed    == 8000
FadeBenchChunks   == 6                  \* length of the source, in chunks
FadeBenchFadeMs   == {100, 150}         \* start fade-in and end fade-out times
FadeBenchPauseMs  == {100}              \* pause fade-out time
FadeBenchResumeMs == {50, 150, 200}     \* resume fade-in times

NoFrame ==
  [gain |-> 0, fi_rem |-> 0, fo_rem |-> 0, file_rem |-> 0, state |-> "none", pauses |-> 0]

(* the states PlaySample is called in *)
FadeBenchCallStates == {"PB_Idle", "PB_Playing"}

(* the 16-bit session as PlaySample arms it, before the pre-fill: pb_state *)
(* is still the state PlaySample was called in                             *)
FadeBenchSession(mode, fade_ms, pause_ms, resume_ms, state_at_call) ==
  LET adv == (IF mode = "Mode_stereo" THEN 2 ELSE 1) * SrcHalfChunkSz
      s0  == RecalculateFadeSamples(
               [InitEng EXCEPT !.AudioEngine_ReadVolume = 1,
                               !.I2S_PlaybackSpeed      = FadeBenchSpeed,
                               !.fadein_time_ms         = fade_ms,
                               !.fadeout_time_ms        = fade_ms,
                               !.pause_fadeout_time_ms  = pause_ms,
                               !.pause_fadein_time_ms   = resume_ms,
                               !.pb_state               = state_at_call,
                               !.pb_mode                = 16,
                               !.channels               = mode,
                               !.p_advance              = adv,
                               !.pb_p16_ptr             = SrcBase,
                               !.pb_end16_ptr           = SrcBase + FadeBenchChunks * adv,
                               !.samples_remaining      = FadeBenchChunks * adv])
  IN  [s0 EXCEPT !.fadein_samples_remaining = s0.fadein_samples]

FadeBenchInit ==
  /\ \E mode \in Modes, fade_ms \in FadeBenchFadeMs, pause_ms \in FadeBenchPauseMs,
        resume_ms \in FadeBenchResumeMs, state_at_call \in FadeBenchCallStates :
       eng = FadeBenchSession(mode, fade_ms, pause_ms, resume_ms, state_at_call)
  /\ obs = [InitObs EXCEPT !.sessions = 1]
             @@ [frame_i |-> 0, chunks |-> 0, frame |-> NoFrame, prev |-> NoFrame]
  /\ hal = [InitHal EXCEPT !.dma_running = TRUE]
  /\ fg  = InitFg

(* what ProcessDMACallback does before it decodes a chunk: the pause       *)
(* fade-out that fits in one half ends in silence, the end of the data     *)
(* ends the session                                                        *)
FadeBench_ChunkStart(s) ==
  IF s.pb_state = "PB_Pausing"
     /\ U32Le(s.fadeout_samples_remaining, SrcHalfChunkSz)
  THEN [s EXCEPT !.pb_state = "PB_Paused"]
  ELSE IF s.pb_p16_ptr >= s.pb_end16_ptr
  THEN EndPlaybackCleanup(s)
  ELSE s

(* one iteration of the chunk loop of ProcessNextWaveChunk, with the       *)
(* pointer advanced after the last one: by PlaySample for the two chunks   *)
(* of its pre-fill, after which it sets PB_Playing, and by                 *)
(* AdvanceSamplePointer in the interrupt                                   *)
FadeBench_DecodeFrame(s) ==
  LET sp    == IF s.channels = "Mode_stereo" THEN 2 ELSE 1
      input == s.pb_p16_ptr + sp * s.frame_i
      f     == [gain     |-> FrameGain(s),
                fi_rem   |-> s.fadein_samples_remaining,
                fo_rem   |-> s.fadeout_samples_remaining,
                file_rem |-> RemainingInFile(s),
                state    |-> s.pb_state,
                pauses   |-> s.pauses]
      s1    == IF input >= s.pb_end16_ptr THEN s
               ELSE [s EXCEPT !.prev = s.frame, !.frame = f]
      s2    == UpdateFadeCounters(s1, sp)
  IN  IF s.frame_i + 1 < SrcHalfChunkSz
      THEN [s2 EXCEPT !.frame_i = @ + 1]
      ELSE IF s.chunks >= 2
      THEN [AdvanceSamplePointer(s2) EXCEPT !.frame_i = 0, !.chunks = @ + 1]
      ELSE [s2 EXCEPT !.frame_i = 0, !.chunks = @ + 1,
                      !.pb_p16_ptr = @ + s2.p_advance,
                      !.pb_state = IF s.chunks = 1 THEN "PB_Playing" ELSE @]

FadeBench_Frame ==
  /\ AtMain
  /\ obs.chunks < 2 \/ eng.pb_state \in {"PB_Playing", "PB_Pausing"}
  /\ \E s \in {IF obs.frame_i = 0 /\ obs.chunks >= 2
                THEN FadeBench_ChunkStart(Machine) ELSE Machine} :
       IF obs.chunks < 2 \/ s.pb_state \in {"PB_Playing", "PB_Pausing"}
       THEN Commit(Quiet(FadeBench_DecodeFrame(s)))
       ELSE Commit(Quiet(s))
  /\ UNCHANGED fg

(* the foreground runs between two interrupts, after PlaySample's pre-fill *)
FadeBench_PauseCheck ==
  /\ obs.frame_i = 0 /\ obs.chunks >= 2 /\ eng.pb_state = "PB_Playing"
  /\ PausePlayback_Check

FadeBench_PauseWrite ==
  /\ eng.pb_state = "PB_Playing"
  /\ PausePlayback_Write

FadeBench_ResumeCheck ==
  /\ eng.pb_state = "PB_Paused"
  /\ ResumePlayback_Check

FadeBench_ResumeWrite ==
  /\ obs.pauses >= 1
  /\ ResumePlayback_Write

FadeBenchNext ==
  \/ FadeBench_Frame
  \/ FadeBench_PauseCheck
  \/ FadeBench_PauseWrite
  \/ FadeBench_ResumeCheck
  \/ FadeBench_ResumeWrite

FadeSpec == FadeBenchInit /\ [][FadeBenchNext]_vars

(* ---------------------- the recursive filter stages -------------------- *)
FilterSeqLen == 4            \* samples fed to a stage
FilterInputs == {AUDIO_INT16_MIN, -16384, 0, 16384, AUDIO_INT16_MAX}
FilterStages == {"ApplyDCBlockingFilter", "ApplySoftDCFilter16Bit",
                 "ApplyLowPassFilter8Bit"}

(* floor( a * b / 65536 ): the value of ( a * b ) >> 16 when the product   *)
(* is exact.  Taken in two steps of 8 bits so that no intermediate leaves  *)
(* the checker's integers.                                                 *)
Q16Mul(a, b) == (a * (b \div 256) + ((a * (b % 256)) \div 256)) \div 256

(* the int32_t product a * b leaves the type: its >> 16 is outside int16   *)
Int32MulOverflows(a, b) ==
  Q16Mul(a, b) < AUDIO_INT16_MIN \/ Q16Mul(a, b) > AUDIO_INT16_MAX

(* ( a * b ) >> 16 of the product wrapped to 32 bits *)
Q16MulWrapped(a, b) == ((Q16Mul(a, b) + 32768) % 65536) - 32768

(* what a build makes of ( a * b ) >> 16 on int32_t operands: the exact    *)
(* value when the product fits; when it overflows (undefined behaviour)    *)
(* the wrapped product, or the exact value of a wider evaluation           *)
Int32Q16MulOutcomes(a, b) ==
  IF Int32MulOverflows(a, b) THEN {Q16MulWrapped(a, b), Q16Mul(a, b)}
                             ELSE {Q16Mul(a, b)}

ZeroHistory == [prev_input |-> 0, prev_output |-> 0]

(* ApplyDCFilterWithAlpha, term being the value of                         *)
(* ( *prev_output * (int32_t)alpha_q16 ) >> DC_FILTER_SHIFT                *)
ApplyDCFilterWithAlpha(h, input, term) ==
  LET output == input - h.prev_input + term
  IN  [h |-> [prev_input |-> input, prev_output |-> output], out |-> Clamp16(output)]

(* ApplyLowPassFilter8Bit: prev_output holds *y1; no product leaves int32_t *)
ApplyLowPassFilter8Bit(h, sample, alpha, makeup_q16) ==
  LET one_minus_alpha == Q16_SCALE - alpha
      output   == Q16Mul(alpha, sample) + Q16Mul(one_minus_alpha, h.prev_output)
      output64 == Clamp16(Q16Mul(output, makeup_q16))
  IN  [h |-> [prev_input |-> sample, prev_output |-> output64], out |-> output64]

FilterBenchInit ==
  /\ \E stage \in FilterStages :
       eng = [stage |-> stage, h |-> ZeroHistory, n |-> 0]
  /\ obs = [out |-> 0, exact |-> ZeroHistory, exact_out |-> 0, overflowed |-> FALSE]
  /\ hal = InitHal
  /\ fg  = InitFg

(* a stage run on one more sample, next to the same stage in exact integers *)
FilterBench_DC(stage, alpha_q16) ==
  /\ eng.stage = stage /\ eng.n < FilterSeqLen
  /\ \E input \in FilterInputs :
       \E term \in Int32Q16MulOutcomes(eng.h.prev_output, alpha_q16) :
         LET r == ApplyDCFilterWithAlpha(eng.h, input, term)
             e == ApplyDCFilterWithAlpha(obs.exact, input,
                                         Q16Mul(obs.exact.prev_output, alpha_q16))
         IN  /\ eng' = [eng EXCEPT !.h = r.h, !.n = @ + 1]
             /\ obs' = [out |-> r.out, exact |-> e.h, exact_out |-> e.out,
                        overflowed |-> obs.overflowed
                                         \/ Int32MulOverflows(eng.h.prev_output, alpha_q16)]
  /\ UNCHANGED <<hal, fg>>

FilterBench_DCBlocking ==
  /\ eng.stage = "ApplyDCBlockingFilter"
  /\ FilterBench_DC("ApplyDCBlockingFilter", DC_FILTER_ALPHA)

FilterBench_SoftDC ==
  /\ eng.stage = "ApplySoftDCFilter16Bit"
  /\ FilterBench_DC("ApplySoftDCFilter16Bit", SOFT_DC_FILTER_ALPHA)

FilterBench_Lpf8 ==
  /\ eng.stage = "ApplyLowPassFilter8Bit" /\ eng.n < FilterSeqLen
  /\ \E input \in FilterInputs, alpha \in {LPF_MEDIUM, LPF_AGGRESSIVE} :
       LET r == ApplyLowPassFilter8Bit(eng.h, input, alpha, MaxMakeupGainQ16)
           e == ApplyLowPassFilter8Bit(obs.exact, input, alpha, MaxMakeupGainQ16)
       IN  /\ eng' = [eng EXCEPT !.h = r.h, !.n = @ + 1]
           /\ obs' = [out |-> r.out, exact |-> e.h, exact_out |-> e.out,
                      overflowed |-> obs.overflowed]
  /\ UNCHANGED <<hal, fg>>

FilterBenchNext ==
  \/ FilterBench_DCBlocking
  \/ FilterBench_SoftDC
  \/ FilterBench_Lpf8

FilterSpec == FilterBenchInit /\ [][FilterBenchNext]_vars

(* ------------------------- filter configuration ------------------------ *)
MaxCfgCalls == 3             \* configuration calls in one run

(* the members of FilterConfig_TypeDef the filter stages read, in the      *)
(* order of the structure                                                  *)
CfgFields ==
  <<"enable_16bit_biquad_lpf", "enable_8bit_lpf", "enable_air_effect",
    "lpf_makeup_gain_q16", "lpf_makeup_gain_16bit_q16", "lpf_16bit_level",
    "lpf_16bit_custom_alpha", "lpf_8bit_level", "lpf_8bit_custom_alpha">>

StaticFilterCfg ==
  [enable_16bit_biquad_lpf   |-> 1,
   enable_8bit_lpf           |-> 1,
   enable_air_effect         |-> 0,
   lpf_makeup_gain_q16       |-> LPF_MAKEUP_GAIN_Q16,
   lpf_makeup_gain_16bit_q16 |-> LPF_16BIT_MAKEUP_GAIN_Q16,
   lpf_16bit_level           |-> LPF_Custom,
   lpf_16bit_custom_alpha    |-> LPF_16BIT_SOFT,
   lpf_8bit_level            |-> LPF_Medium,
   lpf_8bit_custom_alpha     |-> LPF_MEDIUM]

CfgEngInit ==
  [filter_cfg                |-> StaticFilterCfg,
   lpf_8bit_alpha            |-> LPF_MEDIUM,
   lpf_16bit_alpha           |-> LPF_16BIT_SOFT,
   air_effect_shelf_gain_q16 |-> AIR_EFFECT_SHELF_GAIN,
   air_effect_preset_idx     |-> 1]

(* the filter configuration part of AudioEngine_Init *)
AudioEngine_Init_FilterCfg(s) ==
  [s EXCEPT !.filter_cfg =
     [@ EXCEPT !.enable_16bit_biquad_lpf   = 1,
               !.enable_8bit_lpf           = 1,
               !.enable_air_effect         = 0,
               !.lpf_makeup_gain_q16       = LPF_MAKEUP_GAIN_Q16,
               !.lpf_makeup_gain_16bit_q16 = LPF_16BIT_MAKEUP_GAIN_Q16,
               !.lpf_16bit_level           = LPF_Soft,
               !.lpf_8bit_level            = LPF_Medium,
               !.lpf_8bit_custom_alpha     = LPF_MEDIUM]]

(* "default if zero, cap if too high" *)
SaneMakeupGain(gain_q16, default_q16) ==
  IF gain_q16 = 0 THEN default_q16
  ELSE IF gain_q16 > AIR_EFFECT_SHELF_GAIN_MAX THEN AIR_EFFECT_SHELF_GAIN_MAX
  ELSE gain_q16

(* filter_cfg = *cfg, one member at a time *)
SetFilterConfig_CopyField(s, cfg, i) ==
  [s EXCEPT !.filter_cfg[CfgFields[i]] = cfg[CfgFields[i]]]

SetFilterConfig_Sanitize8(s) ==
  [s EXCEPT !.filter_cfg.lpf_makeup_gain_q16 =
              SaneMakeupGain(@, LPF_MAKEUP_GAIN_Q16)]

SetFilterConfig_Sanitize16(s) ==
  [s EXCEPT !.filter_cfg.lpf_makeup_gain_16bit_q16 =
              SaneMakeupGain(@, LPF_16BIT_MAKEUP_GAIN_Q16)]

(* SetFilterConfig run to its end without interruption *)
SetFilterConfig(s, cfg) ==
  SetFilterConfig_Sanitize16(SetFilterConfig_Sanitize8([s EXCEPT !.filter_cfg = cfg]))

GetFilterConfig(s) == s.filter_cfg

SetLpf8BitLevel(s, level) ==
  LET stored == IF level # LPF_Off /\ level > LPF_Custom THEN LPF_VerySoft ELSE level
  IN  [s EXCEPT !.filter_cfg.enable_8bit_lpf = IF level = LPF_Off THEN 0 ELSE 1,
                !.filter_cfg.lpf_8bit_level  = stored]

SetLpf8BitCustomAlpha(s, alpha) ==
  [s EXCEPT !.filter_cfg.lpf_8bit_custom_alpha = alpha,
            !.filter_cfg.lpf_8bit_level        = LPF_Custom,
            !.lpf_8bit_alpha                   = alpha]

GetLpf8BitAlpha(s, lpf_level) ==
  CASE lpf_level = LPF_Custom     -> s.filter_cfg.lpf_8bit_custom_alpha
    [] lpf_level = LPF_VerySoft   -> LPF_VERY_SOFT
    [] lpf_level = LPF_Soft       -> LPF_SOFT
    [] lpf_level = LPF_Firm       -> LPF_FIRM
    [] lpf_level = LPF_Aggressive -> LPF_AGGRESSIVE
    [] OTHER                      -> LPF_MEDIUM

(* the statement of PlaySample that loads the 8-bit alpha *)
PlaySample_LoadLpf8BitAlpha(s) ==
  [s EXCEPT !.lpf_8bit_alpha = GetLpf8BitAlpha(s, s.filter_cfg.lpf_8bit_level)]

SetLpf16BitLevel(s, level) ==
  LET known == level >= LPF_Off /\ level <= LPF_Custom
      alpha == CASE level = LPF_Off        -> s.lpf_16bit_alpha
                 [] level = LPF_VerySoft   -> LPF_16BIT_VERY_SOFT
                 [] level = LPF_Soft       -> LPF_16BIT_SOFT
                 [] level = LPF_Medium     -> LPF_16BIT_MEDIUM
                 [] level = LPF_Firm       -> LPF_16BIT_FIRM
                 [] level = LPF_Aggressive -> LPF_16BIT_AGGRESSIVE
                 [] level = LPF_Custom     -> s.filter_cfg.lpf_16bit_custom_alpha
                 [] OTHER                  -> LPF_16BIT_SOFT
  IN  [s EXCEPT !.filter_cfg.lpf_16bit_level = IF known THEN level ELSE LPF_Soft,
                !.filter_cfg.enable_16bit_biquad_lpf = IF level = LPF_Off THEN 0 ELSE 1,
                !.lpf_16bit_alpha = alpha]

SetLpf16BitCustomAlpha(s, alpha) ==
  [s EXCEPT !.filter_cfg.lpf_16bit_custom_alpha = alpha,
            !.lpf_16bit_alpha = IF s.filter_cfg.lpf_16bit_level = LPF_Custom
                                THEN alpha ELSE @]

(* a float gain is written in thousandths; NotANumber stands for a NaN *)
NotANumber == -1000000

(* (uint32_t)( gain * 65536.0f + 0.5f ) after the clamp to 0.1 .. 2.0; a    *)
(* NaN passes both comparisons and its conversion is undefined             *)
MakeupGainQ16Outcomes(gain) ==
  IF gain = NotANumber THEN {0, INT32_MAX}
  ELSE LET g == IF gain < 100 THEN 100 ELSE IF gain > 2000 THEN 2000 ELSE gain
       IN  {(g * 65536 + 500) \div 1000}

SetLpfMakeupGain8Bit(s, q16) == [s EXCEPT !.filter_cfg.lpf_makeup_gain_q16 = q16]

SetLpfMakeupGain16Bit(s, q16) == [s EXCEPT !.filter_cfg.lpf_makeup_gain_16bit_q16 = q16]

air_effect_presets_db == <<1, 2, 3>>

SetAirEffectEnable(s, enabled) ==
  [s EXCEPT !.filter_cfg.enable_air_effect = IF enabled # 0 THEN 1 ELSE 0]

SetAirEffectGainQ16(s, gain_q16) ==
  [s EXCEPT !.air_effect_shelf_gain_q16 =
     IF gain_q16 > AIR_EFFECT_SHELF_GAIN_MAX THEN AIR_EFFECT_SHELF_GAIN_MAX ELSE gain_q16]

(* G = ( 10^(db/20) * (2 - alpha) - alpha ) / ( 2 * (1 - alpha) ) in Q16,   *)
(* alpha = AIR_EFFECT_CUTOFF / 65536 = 0.75, for the decibel values of the *)
(* preset table                                                            *)
AirGainQ16ForDb(db) ==
  CASE db = 1 -> 85528
    [] db = 2 -> 107958
    [] db = 3 -> 133126

SetAirEffectGainDb(s, db) == SetAirEffectGainQ16(s, AirGainQ16ForDb(db))

SetAirEffectPresetDb(s, preset_index) ==
  LET idx == IF preset_index >= AIR_EFFECT_PRESET_COUNT THEN 0 ELSE preset_index
      s1  == [s EXCEPT !.air_effect_preset_idx = idx]
      s2  == SetAirEffectEnable(s1, IF idx > 0 THEN 1 ELSE 0)
  IN  SetAirEffectGainDb(s2, air_effect_presets_db[idx + 1])

CycleAirEffectPresetDb(s) ==
  LET inc  == (s.air_effect_preset_idx + 1) % 256
      next == IF inc >= AIR_EFFECT_PRESET_COUNT THEN 0 ELSE inc
      s1   == SetAirEffectPresetDb(s, next)
  IN  [st |-> s1, ret |-> s1.air_effect_preset_idx]

(* arguments of the calls *)
CfgLevels       == LPF_Off .. LPF_Custom + 1
CfgCustomAlphas == {32768, LPF_16BIT_FIRM}
CfgGains        == {NotANumber, 0, 50, 1000, 2000, 3000}
CfgPresets      == {0, 1, 2, 3, 255}
CfgArgs ==
  {[StaticFilterCfg EXCEPT !.lpf_makeup_gain_q16       = g8,
                           !.lpf_makeup_gain_16bit_q16 = g16,
                           !.lpf_8bit_level            = l8,
                           !.lpf_16bit_level           = LPF_Firm,
                           !.lpf_8bit_custom_alpha     = LPF_SOFT] :
     g8 \in {0, 65536, 200000}, g16 \in {0, 98304}, l8 \in {LPF_Soft, LPF_Custom}}

NoSample == [cfg |-> StaticFilterCfg, alpha8 |-> 0, alpha16 |-> 0]

CfgInit ==
  /\ eng = CfgEngInit
  /\ hal = InitHal
  /\ fg  = [pc |-> "main", cfg |-> StaticFilterCfg, i |-> 1]
  /\ obs = [calls |-> 0, op |-> "none", arg |-> 0, ret |-> 0, before |-> CfgEngInit,
            target |-> StaticFilterCfg, seen_at |-> "none", seen |-> NoSample]

CfgIdle == fg.pc = "main" /\ obs.calls < MaxCfgCalls

(* the record of a call that starts: what was called, and the state before *)
CfgCalled(op, arg, ret) ==
  [obs EXCEPT !.calls = @ + 1, !.op = op, !.arg = arg, !.ret = ret,
              !.before = eng, !.seen_at = "none"]

Call_AudioEngine_Init ==
  /\ CfgIdle
  /\ eng' = AudioEngine_Init_FilterCfg(eng)
  /\ obs' = CfgCalled("AudioEngine_Init", 0, 0)
  /\ UNCHANGED <<hal, fg>>

Call_SetFilterConfig_Enter ==
  /\ CfgIdle
  /\ \E cfg \in CfgArgs :
       /\ fg'  = [pc |-> "copy", cfg |-> cfg, i |-> 1]
       /\ obs' = [CfgCalled("SetFilterConfig", 0, 0) EXCEPT
                    !.target = SetFilterConfig(eng, cfg).filter_cfg]
  /\ UNCHANGED <<eng, hal>>

(* GetFilterConfig( &c ); SetFilterConfig( &c ); *)
Call_GetThenSetFilterConfig_Enter ==
  /\ CfgIdle
  /\ fg'  = [pc |-> "copy", cfg |-> GetFilterConfig(eng), i |-> 1]
  /\ obs' = [CfgCalled("GetThenSetFilterConfig", 0, 0) EXCEPT
               !.target = SetFilterConfig(eng, GetFilterConfig(eng)).filter_cfg]
  /\ UNCHANGED <<eng, hal>>

Call_SetFilterConfig_Null ==
  /\ CfgIdle
  /\ obs' = [CfgCalled("SetFilterConfig_NULL", 0, 0) EXCEPT !.target = eng.filter_cfg]
  /\ UNCHANGED <<eng, hal, fg>>

Call_SetFilterConfig_Copy ==
  /\ fg.pc = "copy"
  /\ eng' = SetFilterConfig_CopyField(eng, fg.cfg, fg.i)
  /\ fg'  = IF fg.i = Len(CfgFields) THEN [fg EXCEPT !.pc = "sanitize_8bit"]
                                     ELSE [fg EXCEPT !.i = @ + 1]
  /\ UNCHANGED <<hal, obs>>

Call_SetFilterConfig_Sanitize8 ==
  /\ fg.pc = "sanitize_8bit"
  /\ eng' = SetFilterConfig_Sanitize8(eng)
  /\ fg'  = [fg EXCEPT !.pc = "sanitize_16bit"]
  /\ UNCHANGED <<hal, obs>>

Call_SetFilterConfig_Sanitize16 ==
  /\ fg.pc = "sanitize_16bit"
  /\ eng' = SetFilterConfig_Sanitize16(eng)
  /\ fg'  = [fg EXCEPT !.pc = "main"]
  /\ UNCHANGED <<hal, obs>>

Call_SetLpf8BitLevel ==
  /\ CfgIdle
  /\ \E level \in CfgLevels :
       /\ eng' = SetLpf8BitLevel(eng, level)
       /\ obs' = CfgCalled("SetLpf8BitLevel", level, 0)
  /\ UNCHANGED <<hal, fg>>

Call_SetLpf8BitCustomAlpha ==
  /\ CfgIdle
  /\ \E alpha \in CfgCustomAlphas :
       /\ eng' = SetLpf8BitCustomAlpha(eng, alpha)
       /\ obs' = CfgCalled("SetLpf8BitCustomAlpha", alpha, 0)
  /\ UNCHANGED <<hal, fg>>

Call_SetLpf16BitLevel ==
  /\ CfgIdle
  /\ \E level \in CfgLevels :
       /\ eng' = SetLpf16BitLevel(eng, level)
       /\ obs' = CfgCalled("SetLpf16BitLevel", level, 0)
  /\ UNCHANGED <<hal, fg>>

Call_SetLpf16BitCustomAlpha ==
  /\ CfgIdle
  /\ \E alpha \in CfgCustomAlphas :
       /\ eng' = SetLpf16BitCustomAlpha(eng, alpha)
       /\ obs' = CfgCalled("SetLpf16BitCustomAlpha", alpha, 0)
  /\ UNCHANGED <<hal, fg>>

Call_SetLpfMakeupGain8Bit ==
  /\ CfgIdle
  /\ \E gain \in CfgGains : \E q16 \in MakeupGainQ16Outcomes(gain) :
       /\ eng' = SetLpfMakeupGain8Bit(eng, q16)
       /\ obs' = CfgCalled("SetLpfMakeupGain8Bit", gain, 0)
  /\ UNCHANGED <<hal, fg>>

Call_SetLpfMakeupGain16Bit ==
  /\ CfgIdle
  /\ \E gain \in CfgGains : \E q16 \in MakeupGainQ16Outcomes(gain) :
       /\ eng' = SetLpfMakeupGain16Bit(eng, q16)
       /\ obs' = CfgCalled("SetLpfMakeupGain16Bit", gain, 0)
  /\ UNCHANGED <<hal, fg>>

Call_SetAirEffectPresetDb ==
  /\ CfgIdle
  /\ \E preset_index \in CfgPresets :
       /\ eng' = SetAirEffectPresetDb(eng, preset_index)
       /\ obs' = CfgCalled("SetAirEffectPresetDb", preset_index, 0)
  /\ UNCHANGED <<hal, fg>>

Call_CycleAirEffectPresetDb ==
  /\ CfgIdle
  /\ eng' = CycleAirEffectPresetDb(eng).st
  /\ obs' = CfgCalled("CycleAirEffectPresetDb", 0, CycleAirEffectPresetDb(eng).ret)
  /\ UNCHANGED <<hal, fg>>

Call_PlaySample ==
  /\ CfgIdle
  /\ eng' = PlaySample_LoadLpf8BitAlpha(eng)
  /\ obs' = CfgCalled("PlaySample", 0, 0)
  /\ UNCHANGED <<hal, fg>>

(* the DMA interrupt decodes a sample: what the filter stages read.  It    *)
(* may come between any two steps of the foreground; one is recorded per   *)
(* call.                                                                   *)
Cfg_DecodeSample ==
  /\ obs.calls > 0 /\ obs.seen_at = "none"
  /\ obs' = [obs EXCEPT !.seen_at = fg.pc,
                        !.seen = [cfg    |-> eng.filter_cfg,
                                  alpha8  |-> eng.lpf_8bit_alpha,
                                  alpha16 |-> eng.lpf_16bit_alpha]]
  /\ UNCHANGED <<eng, hal, fg>>

CfgNext ==
  \/ Call_AudioEngine_Init
  \/ Call_SetFilterConfig_Enter
  \/ Call_GetThenSetFilterConfig_Enter
  \/ Call_SetFilterConfig_Null
  \/ Call_SetFilterConfig_Copy
  \/ Call_SetFilterConfig_Sanitize8
  \/ Call_SetFilterConfig_Sanitize16
  \/ Call_SetLpf8BitLevel
  \/ Call_SetLpf8BitCustomAlpha
  \/ Call_SetLpf16BitLevel
  \/ Call_SetLpf16BitCustomAlpha
  \/ Call_SetLpfMakeupGain8Bit
  \/ Call_SetLpfMakeupGain16Bit
  \/ Call_SetAirEffectPresetDb
  \/ Call_CycleAirEffectPresetDb
  \/ Call_PlaySample
  \/ Cfg_DecodeSample

ConfigSpec == CfgInit /\ [][CfgNext]_vars

(* ------------------------------- claims --------------------------------- *)

(* C1: in every reachable state, PlaySample called with a sample depth     *)
(* other than 8 or 16, a mode other than mono or stereo, a zero length, a  *)
(* NULL source, or with no volume-read callback registered, returns        *)
(* PB_Error and leaves every variable of the engine and of the peripheral  *)
(* as it was (so a call from Idle leaves the state Idle).                  *)
C1_InvalidPlaySampleChangesNothing ==
  \A a \in PlayArgs, playback_speed \in Speeds, hal_ok \in BOOLEAN :
    ( \/ a.sample_depth \notin {8, 16}
      \/ a.mode \notin {"Mode_mono", "Mode_stereo"}
      \/ a.sample_set_sz = 0
      \/ a.sample_to_play = NULL
      \/ eng.AudioEngine_ReadVolume = NULL )
    => LET r == PlaySample(Machine, a.sample_to_play, a.sample_set_sz, playback_speed,
                           a.sample_depth, a.mode, hal_ok, AUDIO_INT16_MAX)
       IN  /\ r.ret = "PB_Error"
           /\ r.st = Machine
           /\ (eng.pb_state = "PB_Idle" => r.st.pb_state = "PB_Idle")

(* a rejected PlaySample call made while a session is playing *)
C1_Witness ==
  /\ obs.ret = [op |-> "PlaySample", val |-> "PB_Error"]
  /\ eng.AudioEngine_ReadVolume # NULL
  /\ eng.pb_state = "PB_Playing"
  /\ hal.dma_running

(* C2: AudioEngine_OnPlaybackEnd is invoked at most once between one       *)
(* successful PlaySample and the next, in every interleaving of the API    *)
(* calls with the interrupts (cb_count is reset by a successful            *)
(* PlaySample and counts the invocations since).                           *)
C2_CallbackAtMostOncePerSession == obs.cb_count <= 1

(* the notification delivered by the stop of a paused session *)
C2_Witness ==
  /\ obs.cb_count = 1
  /\ obs.stopped_by = "StopImmediate"
  /\ obs.pauses = 1

(* C3: a session started by a successful PlaySample that is neither       *)
(* paused, nor stopped by StopPlayback, nor shut down, eventually invokes  *)
(* AudioEngine_OnPlaybackEnd, whatever else the foreground does meanwhile  *)
(* (WaitForSampleEnd included).                                            *)
C3_EndOfDataNotifies ==
  [] ( (obs.sessions > 0 /\ hal.dma_running)
       => <> ( \/ obs.cb_count >= 1
               \/ obs.pauses > 0 \/ obs.stops > 0 \/ obs.shutdown ) )

(* C4: in a session with no pause, no stop request and no shutdown, for   *)
(* both depths and both modes, the k-th source sample decoded is sample    *)
(* k of the source (each sample once, in order, across the two pre-fill    *)
(* chunks and the interrupt-filled chunks), and when the state has become  *)
(* Idle all N samples have been decoded.                                   *)
C4_EachSampleDecodedOnceInOrder ==
  (obs.sessions > 0 /\ eng.pb_state # "PB_PlayingFailed"
     /\ obs.pauses = 0 /\ obs.stops = 0 /\ ~ obs.shutdown)
  => /\ \A k \in 1 .. Len(obs.decoded) :
          obs.decoded[k].addr = obs.session.base + (k - 1)
     /\ (eng.pb_state = "PB_Idle" => Len(obs.decoded) = obs.session.sz)

(* C5: in a session that is paused once and resumed (no stop request, no   *)
(* shutdown, no interrupt inside the PausePlayback call) no source sample  *)
(* is decoded twice.  Stated for 16-bit sources, whose pre-fill decodes    *)
(* every sample once (C4).                                                 *)
C5_NoSampleDecodedTwice ==
  (obs.sessions > 0 /\ obs.session.depth = 16 /\ obs.pauses <= 1
     /\ ~ obs.pause_raced /\ obs.stops = 0 /\ ~ obs.shutdown)
  => \A j, k \in 1 .. Len(obs.decoded) :
       j < k => obs.decoded[j].addr # obs.decoded[k].addr

C7_StopPlaybackOnlySetsFlag ==
  [][ /\ (fg.pc = "main" /\ obs'.ret.op = "StopPlayback")
         => /\ eng.pb_state = "PB_Idle"
            /\ obs'.ret.val = "PB_Idle"
            /\ eng' = eng /\ hal' = hal
      /\ (fg.pc = "main" /\ fg'.pc = "stop_ret")
         => /\ eng.pb_state # "PB_Idle"
            /\ eng' = [eng EXCEPT !.stop_requested = 1]
            /\ hal' = hal
      /\ (fg.pc = "stop_ret" /\ fg'.pc = "main")
         => /\ obs'.ret = [op |-> "StopPlayback", val |-> eng.pb_state]
            /\ eng' = eng /\ hal' = hal ]_vars

(* StopPlayback has returned PB_Playing with the flag set *)
C7_Witness ==
  /\ obs.ret = [op |-> "StopPlayback", val |-> "PB_Playing"]
  /\ eng.stop_requested = 1
  /\ eng.pb_state = "PB_Playing"

(* C8: the interrupt that finds the stop flag set in the state Playing,    *)
(* with source data left, decodes at least one (faded) source sample: it   *)
(* does not go straight to a silence-filled buffer.                        *)
C8_StopFromPlayingFades ==
  [][ ( /\ eng.stop_requested = 1
        /\ eng.pb_state = "PB_Playing"
        /\ hal.dma_running
        /\ hal'.dma_next # hal.dma_next
        /\ RemainingInFile(eng) > 0 )
      => Len(obs'.decoded) > Len(obs.decoded) ]_vars

(* C10: WaitForSampleEnd stops the DMA, and returns, only when the state   *)
(* is neither Playing nor Pausing.                                         *)
C10_WaitStopsOnlyAfterFadeOut ==
  [][ /\ (fg.pc = "wait_stop" /\ hal.dma_running /\ ~ hal'.dma_running)
         => eng.pb_state \notin {"PB_Playing", "PB_Pausing"}
      /\ (fg.pc = "wait_ret" /\ fg'.pc = "main")
         => eng.pb_state \notin {"PB_Playing", "PB_Pausing"} ]_vars

StartFailed ==
  obs.sessions > 0 /\ ~ hal.dma_running /\ obs.stopped_by = "PlaySample"

RoundingTolerance ==
  (4 * RefLevel) \div (IF obs.kind = "fadein" THEN eng.fadein_samples
                                               ELSE eng.fadeout_samples)
    + (4 * RefLevel) \div eng.pause_fadeout_samples + 2

AbsDiff(a, b) == IF a >= b THEN a - b ELSE b - a

(* C12: for a pause 0, 25, 50, 75 or 99 % into the start fade-in or into   *)
(* the end-of-data fade-out, the envelope at the start level PausePlayback *)
(* computed equals the envelope of the last frame decoded before the       *)
(* pause, within rounding.                                                 *)
C12_PauseStartsAtCurrentGain ==
  obs.bench_pc = "done"
    => AbsDiff(obs.gain_pause, obs.gain_before) <= RoundingTolerance

(* C12, start fade-in only: the same for a pause during the start fade-in  *)
C12_PauseInFadeInStartsAtCurrentGain ==
  (obs.bench_pc = "done" /\ obs.kind = "fadein")
    => AbsDiff(obs.gain_pause, obs.gain_before) <= RoundingTolerance

(* the frame decoded last belongs to the fade-in armed by ResumePlayback,  *)
(* outside the end-of-data fade-out window                                 *)
InResumeFade(f) ==
  /\ f.state = "PB_Playing" /\ f.pauses >= 1 /\ f.fi_rem > 0
  /\ U32Gt(f.file_rem, eng.fadeout_samples)

(* the largest rise of the envelope between two frames of a quadratic      *)
(* fade-in over the shorter of the two fade-in lengths                     *)
FadeInStep ==
  (4 * RefLevel) \div (IF eng.pause_fadein_samples < eng.fadein_samples
                        THEN eng.pause_fadein_samples ELSE eng.fadein_samples) + 2

(* C13: the first frame decoded after ResumePlayback has envelope 0; from  *)
(* frame to frame of the resume fade-in the envelope never falls and rises *)
(* by no more than one step of the curve; and the frame decoded after      *)
(* pause_fadein_samples samples is the first at full level.                *)
C13_ResumeFadesInFromSilence ==
  /\ (InResumeFade(obs.frame) /\ obs.frame.fi_rem = eng.pause_fadein_samples)
       => obs.frame.gain = 0
  /\ (InResumeFade(obs.frame) /\ InResumeFade(obs.prev))
       => ( /\ obs.frame.gain >= obs.prev.gain
            /\ obs.frame.gain - obs.prev.gain <= FadeInStep
            /\ obs.frame.gain < RefLevel )
  /\ ( /\ InResumeFade(obs.prev)
       /\ obs.frame.state = "PB_Playing" /\ obs.frame.fi_rem = 0
       /\ U32Gt(obs.frame.file_rem, eng.fadeout_samples) )
       => ( /\ obs.frame.gain = RefLevel
            /\ obs.frame.gain - obs.prev.gain <= FadeInStep )

(* C14: from one frame to the next of a fade-in (the counter going down)   *)
(* the envelope does not fall; from one frame to the next of a pause       *)
(* fade-out, and of the end-of-data fade-out, it does not rise; and a      *)
(* frame decoded in the pause fade-out with the counter at 0 has envelope  *)
(* 0.                                                                      *)
C14_FadesAreMonotonic ==
  /\ ( /\ obs.frame.state = "PB_Playing" /\ obs.prev.state = "PB_Playing"
       /\ obs.frame.pauses = obs.prev.pauses
       /\ obs.frame.fi_rem > 0 /\ obs.prev.fi_rem > obs.frame.fi_rem
       /\ U32Gt(obs.frame.file_rem, eng.fadeout_samples) )
       => obs.frame.gain >= obs.prev.gain
  /\ (obs.frame.state = "PB_Pausing" /\ obs.prev.state = "PB_Pausing")
       => obs.frame.gain <= obs.prev.gain
  /\ ( /\ obs.frame.state = "PB_Playing" /\ obs.prev.state = "PB_Playing"
       /\ obs.frame.pauses = obs.prev.pauses
       /\ obs.frame.fi_rem = 0 /\ obs.prev.fi_rem = 0 )
       => obs.frame.gain <= obs.prev.gain
  /\ (obs.frame.state = "PB_Pausing" /\ obs.frame.fo_rem = 0)
       => obs.frame.gain = 0

(* C15: whatever up to FilterSeqLen samples from the extremes of the range *)
(* a recursive stage is fed, no int32_t product overflows, and the value   *)
(* returned is the exact integer result saturated to [-32768, 32767].      *)
C15_FilterStagesSaturateExactly ==
  eng.n > 0
    => ( /\ ~ obs.overflowed
         /\ obs.out >= AUDIO_INT16_MIN /\ obs.out <= AUDIO_INT16_MAX
         /\ obs.out = obs.exact_out )

(* C16: a sample decoded by the DMA interrupt while SetFilterConfig is     *)
(* still running reads either the configuration as it was before the call  *)
(* or the complete sanitized new one, never anything in between.           *)
C16_InterruptSeesOldOrNewConfig ==
  obs.seen_at \in {"copy", "sanitize_8bit", "sanitize_16bit"}
    => obs.seen.cfg \in {obs.before.filter_cfg, obs.target}

(* C17: whenever a configuration call has returned, both makeup gains are  *)
(* non-zero and at most 2.0 in Q16; a zero gain given to SetFilterConfig   *)
(* has become the default; and GetFilterConfig followed by SetFilterConfig *)
(* of the value read leaves the configuration as it was.                   *)
C17_MakeupGainsStaySane ==
  (fg.pc = "main" /\ obs.calls > 0)
    => /\ eng.filter_cfg.lpf_makeup_gain_q16 # 0
       /\ eng.filter_cfg.lpf_makeup_gain_q16 <= MaxMakeupGainQ16
       /\ eng.filter_cfg.lpf_makeup_gain_16bit_q16 # 0
       /\ eng.filter_cfg.lpf_makeup_gain_16bit_q16 <= MaxMakeupGainQ16
       /\ (obs.op = "SetFilterConfig" /\ fg.cfg.lpf_makeup_gain_q16 = 0)
            => eng.filter_cfg.lpf_makeup_gain_q16 = LPF_MAKEUP_GAIN_Q16
       /\ (obs.op = "SetFilterConfig" /\ fg.cfg.lpf_makeup_gain_16bit_q16 = 0)
            => eng.filter_cfg.lpf_makeup_gain_16bit_q16 = LPF_16BIT_MAKEUP_GAIN_Q16
       /\ obs.op = "GetThenSetFilterConfig"
            => eng.filter_cfg = obs.before.filter_cfg

(* the alpha the 16-bit level of a configuration stands for *)
Lpf16BitAlphaOf(cfg) ==
  SetLpf16BitLevel([eng EXCEPT !.filter_cfg = cfg], cfg.lpf_16bit_level).lpf_16bit_alpha

(* C18: the first sample decoded after SetLpf8BitLevel or SetFilterConfig  *)
(* has returned is filtered with the alpha of the level now configured:    *)
(* the 8-bit low-pass with the alpha of the 8-bit level, and after         *)
(* SetFilterConfig the biquad with the alpha of the 16-bit level.          *)
C18_NewLevelUsedByNextSample ==
  (obs.seen_at = "main" /\ obs.op \in {"SetFilterConfig", "SetLpf8BitLevel"})
    => /\ obs.seen.cfg.enable_8bit_lpf = 1
            => obs.seen.alpha8 = GetLpf8BitAlpha(eng, obs.seen.cfg.lpf_8bit_level)
       /\ (obs.op = "SetFilterConfig" /\ obs.seen.cfg.enable_16bit_biquad_lpf = 1)
            => obs.seen.alpha16 = Lpf16BitAlphaOf(obs.seen.cfg)

(* C19: when SetLpf16BitCustomAlpha(a) has returned the 16-bit level is    *)
(* LPF_Custom and the biquad's alpha is a, so the next sample decoded uses *)
(* a, whatever the level was before.                                       *)
C19_CustomAlpha16TakesEffect ==
  (fg.pc = "main" /\ obs.op = "SetLpf16BitCustomAlpha")
    => /\ eng.filter_cfg.lpf_16bit_level = LPF_Custom
       /\ eng.lpf_16bit_alpha = obs.arg
       /\ obs.seen_at = "main" => obs.seen.alpha16 = obs.arg

(* the shelf gain of a boost of db decibels, as the engine stores it *)
AirBoostQ16(db) ==
  IF AirGainQ16ForDb(db) > AIR_EFFECT_SHELF_GAIN_MAX THEN AIR_EFFECT_SHELF_GAIN_MAX
                                                     ELSE AirGainQ16ForDb(db)

(* C20: CycleAirEffectPresetDb returns the new index, the old one plus one *)
(* modulo the preset count; SetAirEffectPresetDb(i) stores i, or 0 when i  *)
(* is out of range; after either the air effect is enabled exactly when    *)
(* the index is above 0, and index k in 1..3 means a boost of +k dB.       *)
C20_AirPresetsSelectTheirBoost ==
  /\ obs.op = "CycleAirEffectPresetDb"
       => /\ obs.ret = eng.air_effect_preset_idx
          /\ eng.air_effect_preset_idx
               = (obs.before.air_effect_preset_idx + 1) % AIR_EFFECT_PRESET_COUNT
  /\ obs.op = "SetAirEffectPresetDb"
       => eng.air_effect_preset_idx = (IF obs.arg \in 0..3 THEN obs.arg ELSE 0)
  /\ obs.op \in {"CycleAirEffectPresetDb", "SetAirEffectPresetDb"}
       => /\ (eng.filter_cfg.enable_air_effect = 1) <=> (eng.air_effect_preset_idx > 0)
          /\ eng.air_effect_preset_idx > 0
               => eng.air_effect_shelf_gain_q16 = AirBoostQ16(eng.air_effect_preset_idx)

(* a step taken by a DMA completion callback; every other step that        *)
(* changes something is taken by a foreground call                         *)
IsrStep ==
  /\ hal.dma_running
  /\ hal'.dma_next # hal.dma_next
  /\ fg' = fg
  /\ obs'.ret = NoRet

ActiveSession == eng.pb_state \in {"PB_Playing", "PB_Pausing"} /\ hal.dma_running

(* C21: while a session is active (Playing or Pausing, the DMA running) a  *)
(* step of a foreground call leaves pb_state, the source pointers and the  *)
(* two fade counters as they are.  The calls that replace or end the       *)
(* session, PlaySample and ShutDownAudio, are left aside.                  *)
C21_ForegroundWritesOnlyStopFlag ==
  [][ (ActiveSession /\ ~ IsrStep /\ obs'.ret.op \notin {"PlaySample", "ShutDownAudio"})
        => /\ eng'.pb_state     = eng.pb_state
           /\ eng'.pb_p8_ptr    = eng.pb_p8_ptr
           /\ eng'.pb_end8_ptr  = eng.pb_end8_ptr
           /\ eng'.pb_p16_ptr   = eng.pb_p16_ptr
           /\ eng'.pb_end16_ptr = eng.pb_end16_ptr
           /\ eng'.fadein_samples_remaining  = eng.fadein_samples_remaining
           /\ eng'.fadeout_samples_remaining = eng.fadeout_samples_remaining ]_vars

(* C22: HAL_I2S_DMAStop is never called while execution is inside a DMA    *)
(* completion callback.                                                    *)
C22_DmaNeverStoppedInCallback == ~ obs.stop_in_isr

(* C23: a callback moves the state from Pausing to Paused, or fills the    *)
(* buffer of a pausing session with silence, only when the pause fade-out  *)
(* counter is 0.                                                           *)
C23_PausedOnlyAfterFullFadeOut ==
  [][ (IsrStep /\ eng.pb_state = "PB_Pausing"
         /\ ( \/ eng'.pb_state = "PB_Paused"
              \/ \A i \in 0 .. PB_BUFF_SZ - 1 : eng'.pb_buffer[i] = Silence ))
        => eng.fadeout_samples_remaining = 0 ]_vars

(* C24: the half-complete callback changes only the slots 0 .. CHUNK_SZ-1  *)
(* of the buffer and the full-complete callback only the slots             *)
(* CHUNK_SZ .. PB_BUFF_SZ-1.                                               *)
C24_CallbackWritesOnlyItsHalf ==
  [][ IsrStep
        => /\ hal.dma_next = FIRST
                => \A i \in CHUNK_SZ .. PB_BUFF_SZ - 1 : eng'.pb_buffer[i] = eng.pb_buffer[i]
           /\ hal.dma_next = SECOND
                => \A i \in 0 .. CHUNK_SZ - 1 : eng'.pb_buffer[i] = eng.pb_buffer[i] ]_vars

(* the source pointer and the end pointer of the session's sample depth *)
SrcPtr(e) == IF e.pb_mode = 16 THEN e.pb_p16_ptr ELSE e.pb_p8_ptr

EndPtr(e) == IF e.pb_mode = 16 THEN e.pb_end16_ptr ELSE e.pb_end8_ptr

(* the source position of output slot j of a half decoded from chunk_p *)
SlotPos(e, chunk_p, j) == chunk_p + (IF e.channels = "Mode_mono" THEN j \div 2 ELSE j)

(* the half starting at slot first holds the decode of the chunk at        *)
(* chunk_p: silence where the source position is at or past the end, and   *)
(* the sample read from its position everywhere else                       *)
HalfDecodedFrom(e, first, chunk_p) ==
  \A j \in 0 .. CHUNK_SZ - 1 :
    IF SlotPos(e, chunk_p, j) >= EndPtr(e)
    THEN e.pb_buffer[first + j] = Silence
    ELSE e.pb_buffer[first + j].addr = SlotPos(e, chunk_p, j)

(* a callback that decoded a chunk: it ends with AdvanceSamplePointer *)
IsrDecodeStep ==
  IsrStep /\ eng.pb_mode # 0 /\ eng'.pb_mode = eng.pb_mode /\ SrcPtr(eng') # SrcPtr(eng)

(* C25: a chunk decode never reads the source at or past the end pointer,  *)
(* writes silence into every slot whose source position is at or past the *)
(* end, and writes the CHUNK_SZ slots of the selected half and no other    *)
(* slot; this holds for the interrupt's decode, also after a stop request  *)
(* has pulled the end in and after a resume, and for PlaySample's pre-fill.*)
C25_DecodeStopsAtEndPointer ==
  /\ [][ IsrDecodeStep
           => /\ HalfDecodedFrom(eng', IF hal.dma_next = SECOND THEN CHUNK_SZ ELSE 0,
                                 SrcPtr(eng))
              /\ \A i \in 0 .. PB_BUFF_SZ - 1 :
                   (i \div CHUNK_SZ # hal.dma_next) => eng'.pb_buffer[i] = eng.pb_buffer[i]
              /\ \A k \in Len(obs.decoded) + 1 .. Len(obs'.decoded) :
                   obs'.decoded[k].addr < EndPtr(eng') ]_vars
  /\ [][ (obs'.ret.op = "PlaySample" /\ obs'.sessions = obs.sessions + 1)
           => /\ HalfDecodedFrom(eng', 0, obs'.session.base)
              /\ HalfDecodedFrom(eng', CHUNK_SZ,
                                 IF eng'.pb_mode = 16
                                 THEN obs'.session.base + eng'.p_advance
                                 ELSE obs'.session.base)
              /\ \A k \in 1 .. Len(obs'.decoded) :
                   obs'.decoded[k].addr < EndPtr(eng') ]_vars

(* a half of the buffer starts with a decoded sample and ends in padding,  *)
(* in a session whose end was pulled in by a stop request                  *)
C25_Witness ==
  /\ obs.stops = 1 /\ eng.stop_requested # 0 /\ hal.dma_running
  /\ eng.pb_state = "PB_Pausing"
  /\ \E first \in {0, CHUNK_SZ} :
       /\ eng.pb_buffer[first] # Silence
       /\ eng.pb_buffer[first + CHUNK_SZ - 1] = Silence

(* C26: every frame decoded in the start fade-in of a session, in          *)
(* PlaySample's pre-fill as well as in the interrupt, has the gain         *)
(* ( elapsed / fadein_samples )^2 with elapsed = fadein_samples -          *)
(* fadein_samples_remaining, whatever the state was at the call.           *)
C26_FadeInIsOneSquaredRamp ==
  (obs.frame.state # "none" /\ obs.frame.pauses = 0 /\ obs.frame.fi_rem > 0)
    => obs.frame.gain = FadeScale(RefLevel, eng.fadein_samples - obs.frame.fi_rem,
                                  eng.fadein_samples, RefLevel)

(* a counter after frames output frames of n samples each *)
CountedDown(x, frames, n) == IF U32Ge(x, frames * n) THEN x - frames * n ELSE 0

SamplesPerFrame(e) == IF e.channels = "Mode_stereo" THEN 2 ELSE 1

(* C27: chunk decoding never raises a fade counter: each frame takes 1     *)
(* (mono) or 2 (stereo) off every non-zero counter, stopping at 0 and      *)
(* never wrapping; the counters rise only where PlaySample, PausePlayback  *)
(* or ResumePlayback arm them.                                             *)
C27_FadeCountersOnlyCountDown ==
  /\ [][ IsrStep => /\ U32Le(eng'.fadein_samples_remaining, eng.fadein_samples_remaining)
                    /\ U32Le(eng'.fadeout_samples_remaining, eng.fadeout_samples_remaining) ]_vars
  /\ [][ (IsrDecodeStep /\ eng'.pb_state \in {"PB_Playing", "PB_Pausing"})
           => /\ eng'.fadein_samples_remaining =
                   CountedDown(eng.fadein_samples_remaining, HALFCHUNK_SZ, SamplesPerFrame(eng))
              /\ eng'.fadeout_samples_remaining =
                   CountedDown(eng.fadeout_samples_remaining, HALFCHUNK_SZ, SamplesPerFrame(eng)) ]_vars
  /\ [][ (obs'.ret.op = "PlaySample" /\ obs'.sessions = obs.sessions + 1)
           => /\ eng'.fadein_samples_remaining =
                   CountedDown(eng'.fadein_samples, 2 * HALFCHUNK_SZ, SamplesPerFrame(eng'))
              /\ eng'.fadeout_samples_remaining = 0 ]_vars
  /\ [][ (\/ U32Gt(eng'.fadein_samples_remaining, eng.fadein_samples_remaining)
          \/ U32Gt(eng'.fadeout_samples_remaining, eng.fadeout_samples_remaining))
           => obs'.ret.op \in {"PlaySample", "PausePlayback", "ResumePlayback"} ]_vars

(* a stereo chunk has been decoded in which a counter stopped at 0 short   *)
(* of a whole frame: the resume fade-in of 1 sample                       *)
C27_Witness ==
  /\ eng.channels = "Mode_stereo" /\ eng.pb_state = "PB_Playing"
  /\ obs.ret = NoRet /\ obs.pauses >= 1 /\ hal.dma_running
  /\ eng.pause_fadein_samples % 2 = 1
  /\ eng.fadein_samples_remaining = 0

(* the sample count of a stored fade time at the current playback rate:    *)
(* the time clamped to 1 ms .. 5 s, times the rate, rounded to nearest,    *)
(* at least 1                                                              *)
FadeSamplesFor(ms, speed) ==
  LET t == IF ms < 1 THEN 1 ELSE IF ms > 5000 THEN 5000 ELSE ms
      n == (2 * t * speed + 1000) \div 2000
  IN  IF n < 1 THEN 1 ELSE n

FadeSamplesConsistent(e) ==
  /\ e.fadein_samples        = FadeSamplesFor(e.fadein_time_ms, e.I2S_PlaybackSpeed)
  /\ e.fadeout_samples       = FadeSamplesFor(e.fadeout_time_ms, e.I2S_PlaybackSpeed)
  /\ e.pause_fadeout_samples = FadeSamplesFor(e.pause_fadeout_time_ms, e.I2S_PlaybackSpeed)
  /\ e.pause_fadein_samples  = FadeSamplesFor(e.pause_fadein_time_ms, e.I2S_PlaybackSpeed)

(* C28: after every call that changes the playback rate or a fade time     *)
(* (PlaySample, SetPlaybackSpeed and the four fade-time setters) each of   *)
(* the four fade sample counts is its stored time at the current rate.     *)
C28_FadeSamplesFollowRateAndTimes ==
  [][ (\/ eng'.I2S_PlaybackSpeed # eng.I2S_PlaybackSpeed
       \/ obs'.cfgs # obs.cfgs
       \/ (obs'.ret.op = "PlaySample" /\ obs'.sessions = obs.sessions + 1))
        => FadeSamplesConsistent(eng') ]_vars

(* ------------------------- the start of a session ----------------------- *)
StartMaxSessions == 2        \* PlaySample calls that start a session

(* after AudioEngine_Init, with the 16-bit biquad left enabled or switched *)
(* off by SetLpf16BitLevel( LPF_Off ), and the filter chains left enabled  *)
(* or switched off by SetFilterConfig                                      *)
SessionStartInit ==
  /\ \E biquad \in {0, 1}, chain \in {0, 1} :
       eng = [InitEng EXCEPT !.AudioEngine_ReadVolume = 1,
                             !.filter_cfg.enable_16bit_biquad_lpf   = biquad,
                             !.filter_cfg.enable_filter_chain_16bit = chain,
                             !.filter_cfg.enable_filter_chain_8bit  = chain]
  /\ hal = InitHal
  /\ fg  = InitFg
  /\ obs = InitObs

SessionStart_PlaySample ==
  /\ AtMain /\ obs.sessions < StartMaxSessions
  /\ \E a \in PlayArgs, playback_speed \in Speeds, hal_ok \in BOOLEAN :
       \E r \in {PlaySample(Machine, a.sample_to_play, a.sample_set_sz,
                            playback_speed, a.sample_depth, a.mode, hal_ok,
                            AUDIO_INT16_MAX)} :
         Commit(Returned(r.st, "PlaySample", r.ret))
  /\ UNCHANGED fg

SessionStart_ShutDownAudio ==
  /\ obs.sessions >= 1
  /\ ShutDownAudio

SessionStartNext ==
  \/ SessionStart_PlaySample
  \/ SessionStart_ShutDownAudio

SessionStartSpec == SessionStartInit /\ [][SessionStartNext]_vars

(* C29: in every successful PlaySample the filter state of both channels   *)
(* is all zero when the first source sample is decoded, except that a      *)
(* 16-bit source with the biquad enabled has in its lpf16 history exactly  *)
(* BIQUAD_WARMUP_CYCLES iterations on the first source sample; nothing of  *)
(* an earlier session is left.                                             *)
C29_SessionStartsFromCleanFilters ==
  [][ (obs'.ret = [op |-> "PlaySample", val |-> "PB_Playing"])
        => \A c \in Channels :
             obs'.first_filter[c] =
               IF obs'.session.depth = 16 /\ eng.filter_cfg.enable_16bit_biquad_lpf # 0
               THEN [hist |-> "zero", lpf16_on |-> obs'.session.base,
                     lpf16_cycles |-> BIQUAD_WARMUP_CYCLES]
               ELSE [hist |-> "zero", lpf16_on |-> NULL, lpf16_cycles |-> 0] ]_vars

(* an 8-bit session was started over a 16-bit one whose filters had run on *)
(* a warmed-up biquad                                                      *)
C29_Witness ==
  /\ obs.sessions = 2 /\ obs.ret = [op |-> "PlaySample", val |-> "PB_Playing"]
  /\ obs.session.depth = 8 /\ eng.pb_end16_ptr # NULL
  /\ eng.filter_cfg.enable_16bit_biquad_lpf = 1
  /\ obs.first_filter = ZeroFilterState
  /\ \A c \in Channels : eng.filter_state[c].hist = "run"

(* --------------------------- 8-bit dithering ---------------------------- *)
SAMPLE8_MIDPOINT         == 128
DITHER_SEED_DEFAULT      == 12345
DITHER_LCG_MULTIPLIER    == 1103515245
DITHER_LCG_INCREMENT     == 12345
DITHER_RANDOM_BITS_SHIFT == 16
DITHER_RANDOM_MASK       == 255
DITHER_SCALE_SHIFT       == 6

MaxDitherCalls == 8          \* calls of Apply8BitDithering in a row

(* a uint32_t as its two 16-bit halves *)
U32Halves(x) == [hi |-> x \div 65536, lo |-> x % 65536]

(* dither_state * DITHER_LCG_MULTIPLIER + DITHER_LCG_INCREMENT modulo      *)
(* 2^32, by 16-bit halves so that no intermediate leaves the checker's     *)
(* integers                                                                *)
DitherLcgStep(st) ==
  LET m  == U32Halves(DITHER_LCG_MULTIPLIER)
      p0 == st.lo * m.lo + DITHER_LCG_INCREMENT
  IN  [lo |-> p0 % 65536,
       hi |-> (((st.hi * m.lo) % 65536) + ((st.lo * m.hi) % 65536)
               + (p0 \div 65536)) % 65536]

(* ( dither_state >> DITHER_RANDOM_BITS_SHIFT ) & DITHER_RANDOM_MASK *)
DitherRandom(st) == st.hi % (DITHER_RANDOM_MASK + 1)

(* the conversion of an int to int16_t as the build does it: modulo 2^16 *)
ToInt16(x) == ((x + 32768) % 65536) - 32768

(* Apply8BitDithering: the shifts are the arithmetic ones of the build *)
Apply8BitDithering(st, sample8) ==
  LET sample16 == ToInt16((sample8 - SAMPLE8_MIDPOINT) * 256)
      s1       == DitherLcgStep(st)
      rand1    == DitherRandom(s1)
      s2       == DitherLcgStep(s1)
      rand2    == DitherRandom(s2)
      dither   == ToInt16((rand1 - rand2) \div 64)
  IN  [st |-> s2, dither |-> dither, out |-> ToInt16(sample16 + dither)]

DitherSamples == {0, 1, 127, 128, 254, 255}
DitherSeeds   == {U32Halves(DITHER_SEED_DEFAULT), [hi |-> 0, lo |-> 0],
                  [hi |-> 32768, lo |-> 0], [hi |-> 65535, lo |-> 65535]}

DitherBenchInit ==
  /\ \E seed \in DitherSeeds : eng = [dither_state |-> seed, calls |-> 0]
  /\ obs = [sample8 |-> 0, before |-> U32Halves(0), dither |-> 0, out |-> 0]
  /\ hal = InitHal
  /\ fg  = InitFg

DitherBench_Apply ==
  /\ eng.calls < MaxDitherCalls
  /\ \E sample8 \in DitherSamples :
       LET r == Apply8BitDithering(eng.dither_state, sample8)
       IN  /\ eng' = [dither_state |-> r.st, calls |-> eng.calls + 1]
           /\ obs' = [sample8 |-> sample8, before |-> eng.dither_state,
                      dither |-> r.dither, out |-> r.out]
  /\ UNCHANGED <<hal, fg>>

DitherBenchNext == DitherBench_Apply

DitherSpec == DitherBenchInit /\ [][DitherBenchNext]_vars

(* C30: for every 8-bit input s and every generator state,                 *)
(* Apply8BitDithering returns ( ( s - 0x80 ) << 8 ) + d with |d| <= 4, a   *)
(* value of the signed 16-bit range reached without wrap-around, and the   *)
(* call advances the generator by exactly two LCG steps.                   *)
C30_DitheredSampleStaysInRange ==
  eng.calls >= 1
    => LET exact == (obs.sample8 - 128) * 256 + obs.dither
       IN  /\ obs.dither >= -4 /\ obs.dither <= 4
           /\ exact >= AUDIO_INT16_MIN /\ exact <= AUDIO_INT16_MAX
           /\ obs.out = exact
           /\ eng.dither_state = DitherLcgStep(DitherLcgStep(obs.before))

(* ----------------------- the memoryless sample stages ------------------- *)
SOFT_CLIP_THRESHOLD        == 28000
NOISE_GATE_THRESHOLD       == 512
NOISE_GATE_ATTENUATION_Q15 == 3277

MaxStageSteps == 70          \* consecutive sample values fed to a stage

(* ComputeSoftClipCurve, in Q16; x is at most Q16_SCALE, so every product  *)
(* is taken by Q16Mul                                                      *)
ComputeSoftClipCurve(excess, range) ==
  LET x0 == (excess * Q16_SCALE) \div range
      x  == IF x0 > Q16_SCALE THEN Q16_SCALE ELSE x0
      x2 == Q16Mul(x, x)
      x3 == Q16Mul(x2, x)
  IN  ((3 * x2) \div 2) - ((2 * x3) \div 2)

ApplySoftClipping(sample) ==
  LET threshold == SOFT_CLIP_THRESHOLD
      max_val   == AUDIO_INT16_MAX
      range     == max_val - threshold
      s == IF sample > threshold
           THEN threshold + Q16Mul(range, ComputeSoftClipCurve(sample - threshold, range))
           ELSE IF sample < -threshold
           THEN -threshold - Q16Mul(range, ComputeSoftClipCurve(-threshold - sample, range))
           ELSE sample
  IN  IF s > max_val THEN max_val ELSE IF s < -max_val THEN -max_val ELSE s

(* ApplyNoiseGate; abs_sample is an int16_t, so -sample is converted back  *)
(* to int16_t                                                              *)
ApplyNoiseGate(sample) ==
  LET abs_sample == IF sample < 0 THEN ToInt16(-sample) ELSE sample
  IN  IF abs_sample < NOISE_GATE_THRESHOLD
      THEN ToInt16((sample * NOISE_GATE_ATTENUATION_Q15) \div 32768)
      ELSE sample

(* bits 16..31 of the uint32_t product a * b, for a and b up to 2^16: the  *)
(* part of the product at 2^32 and above is lost                           *)
U32MulHigh(a, b) ==
  LET al == a % 65536
      ah == a \div 65536
      bl == b % 65536
      bh == b \div 65536
  IN  (Q16Mul(al, bl) + al * bh + ah * bl) % 65536

(* the coefficients ApplyLowPassFilter16Bit derives from lpf_16bit_alpha   *)
(* in uint32_t arithmetic: b0 = ( d * d ) >> 17 with d = Q16_SCALE - alpha *)
Lpf16Coefficients(alpha) ==
  LET d  == Q16_SCALE - alpha
      b0 == U32MulHigh(d, d) \div 2
  IN  [b0 |-> b0, b1 |-> 2 * b0, b2 |-> b0,
       a1 |-> -(2 * alpha), a2 |-> U32MulHigh(alpha, alpha)]

StageNames  == {"ApplySoftClipping", "ApplyNoiseGate", "ApplyLowPassFilter16Bit"}
StageStarts == {AUDIO_INT16_MIN, -28030, -540, 470, 27970, 32700}
AlphaStarts == {0, 19600, 40960, 65466}

StageBenchInit ==
  /\ \E stage \in StageNames :
       \E s \in IF stage = "ApplyLowPassFilter16Bit" THEN AlphaStarts ELSE StageStarts :
         eng = [stage |-> stage, next |-> s, n |-> 0]
  /\ obs = [in |-> 0, out |-> 0, prev_in |-> 0, prev_out |-> 0]
  /\ hal = InitHal
  /\ fg  = InitFg

(* the stage applied to the next sample value, the one before it kept *)
StageBench_Step(out) ==
  /\ eng.n < MaxStageSteps
  /\ eng' = [eng EXCEPT !.next = @ + 1, !.n = @ + 1]
  /\ obs' = [in |-> eng.next, out |-> out,
             prev_in  |-> IF eng.n = 0 THEN eng.next ELSE obs.in,
             prev_out |-> IF eng.n = 0 THEN out ELSE obs.out]
  /\ UNCHANGED <<hal, fg>>

StageBench_SoftClip ==
  /\ eng.stage = "ApplySoftClipping" /\ eng.next <= AUDIO_INT16_MAX
  /\ StageBench_Step(ApplySoftClipping(eng.next))

StageBench_NoiseGate ==
  /\ eng.stage = "ApplyNoiseGate" /\ eng.next <= AUDIO_INT16_MAX
  /\ StageBench_Step(ApplyNoiseGate(eng.next))

(* the biquad's coefficients for the next value of lpf_16bit_alpha *)
StageBench_Lpf16Coefficients ==
  /\ eng.stage = "ApplyLowPassFilter16Bit" /\ eng.next <= 65535
  /\ StageBench_Step(Lpf16Coefficients(eng.next))

StageBenchNext ==
  \/ StageBench_SoftClip
  \/ StageBench_NoiseGate
  \/ StageBench_Lpf16Coefficients

StageSpec == StageBenchInit /\ [][StageBenchNext]_vars

(* the cubic smoothstep 3x^2 - 2x^3 of x = excess / range in Q16 *)
SmoothStepQ16(excess, range) ==
  LET x0 == (excess * Q16_SCALE) \div range
      x  == IF x0 > Q16_SCALE THEN Q16_SCALE ELSE x0
      x2 == Q16Mul(x, x)
      x3 == Q16Mul(x2, x)
  IN  3 * x2 - 2 * x3

(* C31: ApplySoftClipping returns an input of magnitude up to 28000        *)
(* unchanged and one above it as sign * ( 28000 + range * smoothstep ),    *)
(* range = 4767, within Q16 rounding, so that full scale maps to           *)
(* magnitude 32767; the mapping is non-decreasing.                         *)
C31_SoftClipReachesTheRail ==
  (eng.stage = "ApplySoftClipping" /\ eng.n >= 1)
    => LET mag   == IF obs.in < 0 THEN -obs.in ELSE obs.in
           range == AUDIO_INT16_MAX - SOFT_CLIP_THRESHOLD
           want  == SOFT_CLIP_THRESHOLD
                    + Q16Mul(range, SmoothStepQ16(mag - SOFT_CLIP_THRESHOLD, range))
           got   == IF obs.out < 0 THEN -obs.out ELSE obs.out
       IN  /\ mag <= SOFT_CLIP_THRESHOLD => obs.out = obs.in
           /\ mag > SOFT_CLIP_THRESHOLD
                => /\ (obs.out < 0) = (obs.in < 0)
                   /\ got - want <= 2 /\ want - got <= 2
           /\ mag >= AUDIO_INT16_MAX => got = AUDIO_INT16_MAX
           /\ obs.prev_out <= obs.out

(* C32: the noise gate returns every sample of magnitude at least          *)
(* NOISE_GATE_THRESHOLD unchanged, -32768 included, and every sample below *)
(* the threshold scaled by 3277 / 32768, not replaced by zero.             *)
C32_NoiseGatePassesLoudSamples ==
  (eng.stage = "ApplyNoiseGate" /\ eng.n >= 1)
    => LET mag == IF obs.in < 0 THEN -obs.in ELSE obs.in
       IN  /\ mag >= NOISE_GATE_THRESHOLD => obs.out = obs.in
           /\ mag < NOISE_GATE_THRESHOLD
                => obs.out = (obs.in * NOISE_GATE_ATTENUATION_Q15) \div 32768

(* floor( a * a / 2^16 ) for a up to 2^16, in exact integers *)
SquareQ16(a) == IF a = Q16_SCALE THEN Q16_SCALE ELSE Q16Mul(a, a)

(* C33: for every alpha in 0..65535 the biquad's coefficients are          *)
(* b0 = floor( ( 65536 - alpha )^2 / 2^17 ), b1 = 2 * b0, b2 = b0,         *)
(* a1 = -2 * alpha and a2 = floor( alpha^2 / 2^16 ): the 32-bit            *)
(* coefficient arithmetic does not overflow.                               *)
C33_BiquadCoefficientsExact ==
  (eng.stage = "ApplyLowPassFilter16Bit" /\ eng.n >= 1)
    => LET b0 == SquareQ16(Q16_SCALE - obs.in) \div 2
       IN  obs.out = [b0 |-> b0, b1 |-> 2 * b0, b2 |-> b0,
                      a1 |-> -(2 * obs.in), a2 |-> SquareQ16(obs.in)]

(* C34: PausePlayback takes effect only if the state is still PB_Playing   *)
(* when it writes it: a session that an interrupt has brought to PB_Idle   *)
(* between the check and the write is not put into PB_Pausing.             *)
C34_PauseNeverRevivesEndedSession ==
  [][ (fg.pc = "pause_write" /\ fg'.pc = "main" /\ eng.pb_state # "PB_Playing")
        => eng'.pb_state = eng.pb_state ]_vars

(* the half of pb_buffer the DMA transmits after the one it is in *)
WaitingHalf == IF hal.dma_next = FIRST THEN CHUNK_SZ .. PB_BUFF_SZ - 1
                                       ELSE 0 .. CHUNK_SZ - 1

(* C35: when WaitForSampleEnd stops the DMA after the state has become     *)
(* PB_Idle at the natural end of the data, no half of the buffer that      *)
(* holds decoded source samples is still waiting to be transmitted.        *)
C35_WaitStopsAfterLastChunkPlayed ==
  [][ (/\ fg.pc = "wait_stop" /\ fg'.pc = "wait_ret"
       /\ hal.dma_running /\ ~ hal'.dma_running
       /\ eng.pb_state = "PB_Idle" /\ obs.stops = 0 /\ obs.pauses = 0)
        => \A i \in WaitingHalf : eng.pb_buffer[i].addr = NULL ]_vars

(* C36: every frame decoded in PB_Pausing has the gain                     *)
(* ( fadeout_samples_remaining / pause_fadeout_samples )^2, and the gain   *)
(* does not rise from one such frame to the next; in stereo no frame that  *)
(* follows the counter's arrival at 0 inside a chunk is at full gain.      *)
C36_PauseFadeOutCoversWholeChunk ==
  obs.frame.state = "PB_Pausing"
    => /\ obs.frame.gain = FadeScale(RefLevel, obs.frame.fo_rem,
                                     eng.pause_fadeout_samples, RefLevel)
       /\ obs.prev.state = "PB_Pausing" => obs.frame.gain <= obs.prev.gain

(* C37: the envelope is applied to every source sample decoded whatever    *)
(* enable_filter_chain_8bit and enable_filter_chain_16bit are: the first   *)
(* sample decoded in a session has gain 0.                                 *)
C37_EnvelopeIndependentOfChainFlags ==
  (obs.sessions >= 1 /\ Len(obs.decoded) >= 1) => obs.decoded[1].env = 0

(* ---------------- PausePlayback's arithmetic, any fade times ------------ *)
ArithSpeeds    == {8000, 48000}
ArithFadeMs    == {1, 150, 5000}     \* start fade-in and end fade-out times
ArithPauseMs   == {1, 100, 5000}     \* pause fade-out times
ArithResumeMs  == {50, 5000}         \* resume fade-in times

(* a playing 16-bit session between two interrupts: pct % into the start   *)
(* fade-in ("fadein"), into the fade-in armed by ResumePlayback            *)
(* ("resume"), or into the end-of-data fade-out ("fadeout")                *)
ArithPoint(speed, kind, pct, mode, fade_ms, pause_ms, resume_ms) ==
  LET sp   == IF mode = "Mode_stereo" THEN 2 ELSE 1
      adv  == sp * SrcHalfChunkSz
      s0   == RecalculateFadeSamples(
                [InitEng EXCEPT !.AudioEngine_ReadVolume = 1,
                                !.I2S_PlaybackSpeed      = speed,
                                !.fadein_time_ms         = fade_ms,
                                !.fadeout_time_ms        = fade_ms,
                                !.pause_fadeout_time_ms  = pause_ms,
                                !.pause_fadein_time_ms   = resume_ms,
                                !.pb_state               = "PB_Playing",
                                !.pb_mode                = 16,
                                !.channels               = mode,
                                !.p_advance              = adv,
                                !.pb_p16_ptr             = SrcBase])
      far  == SrcBase + 2 * s0.fadeout_samples + 4 * adv
      left == s0.fadeout_samples - ((pct * s0.fadeout_samples) \div 100)
  IN  CASE kind = "fadein" ->
             [s0 EXCEPT !.fadein_samples_remaining =
                           CountDown(s0.fadein_samples, (pct * s0.fadein_samples) \div 100),
                        !.pb_end16_ptr = far]
        [] kind = "resume" ->
             [s0 EXCEPT !.fadein_samples_remaining =
                           CountDown(s0.pause_fadein_samples,
                                     (pct * s0.pause_fadein_samples) \div 100),
                        !.pb_end16_ptr = far]
        [] OTHER ->
             [s0 EXCEPT !.fadein_samples_remaining = 0,
                        !.pb_end16_ptr = SrcBase + left]

PauseArithInit ==
  /\ \E speed \in ArithSpeeds, kind \in {"fadein", "resume", "fadeout"},
        pct \in PausePcts, mode \in Modes, fade_ms \in ArithFadeMs,
        pause_ms \in ArithPauseMs, resume_ms \in ArithResumeMs :
       eng = ArithPoint(speed, kind, pct, mode, fade_ms, pause_ms, resume_ms)
  /\ obs = [InitObs EXCEPT !.sessions = 1]
  /\ hal = [InitHal EXCEPT !.dma_running = TRUE]
  /\ fg  = InitFg

PauseArith_Check ==
  /\ obs.pauses = 0
  /\ PausePlayback_Check

PauseArith_Write ==
  /\ obs.pauses = 1
  /\ PausePlayback_Write

PauseArithNext ==
  \/ PauseArith_Check
  \/ PauseArith_Write

PauseArithSpec == PauseArithInit /\ [][PauseArithNext]_vars

(* the uint32_t product a * b is at least 2^32 *)
U32MulOverflows(a, b) == b # 0 /\ U32Gt(a, U32Div(-1, b))

(* C38: for every fade configuration the setters allow and every point at *)
(* which PausePlayback can be called, the start level it stores is at most *)
(* pause_fadeout_samples: fadein_samples - fadein_samples_remaining does   *)
(* not underflow and neither uint32_t product overflows.                   *)
C38_PauseStartLevelBounded ==
  [][ (fg.pc = "main" /\ fg'.pc = "pause_write")
        => /\ U32Le(eng.fadein_samples_remaining, eng.fadein_samples)
           /\ eng.fadein_samples_remaining # 0
                => ~ U32MulOverflows(eng.fadein_samples - eng.fadein_samples_remaining,
                                     eng.pause_fadeout_samples)
           /\ ( /\ eng.fadein_samples_remaining = 0
                /\ U32Gt(RemainingInFile(eng), 0)
                /\ U32Le(RemainingInFile(eng), eng.fadeout_samples) )
                => ~ U32MulOverflows(RemainingInFile(eng), eng.pause_fadeout_samples)
           /\ U32Le(fg'.level, eng.pause_fadeout_samples) ]_vars

(* the pause fade is running, the interrupts arrive and no call is in      *)
(* progress or has returned since the last interrupt, PausePlayback apart  *)
PausingUndisturbed ==
  /\ eng.pb_state = "PB_Pausing"
  /\ hal.dma_running
  /\ fg.pc = "main"
  /\ obs.ret.op \in {"none", "PausePlayback"}

AllSilence == \A i \in 0 .. PB_BUFF_SZ - 1 : eng.pb_buffer[i] = Silence

(* an interrupt taken in PB_Paused with no stop request pending *)
PausedInterrupt ==
  /\ eng.pb_state = "PB_Paused"
  /\ eng.stop_requested = 0
  /\ IsrStep

(* C39: after PausePlayback has returned PB_Pausing, with the interrupts   *)
(* arriving and no other call made, the state does not remain PB_Pausing   *)
(* forever (it becomes PB_Paused, or PB_Idle when the data ends first);    *)
(* an interrupt taken in PB_Paused leaves the state, the source pointers   *)
(* and paused_sample_ptr unchanged and the whole buffer silent.            *)
C39_PauseFadeEndsAndPausedIsStable ==
  /\ []<>(~ PausingUndisturbed)
  /\ (PausingUndisturbed /\ obs.ret.op = "PausePlayback")
        ~> (\/ eng.pb_state \in {"PB_Paused", "PB_Idle"}
            \/ ~ PausingUndisturbed)
  /\ [][ PausedInterrupt
           => /\ eng'.pb_state = "PB_Paused"
              /\ eng'.pb_p16_ptr = eng.pb_p16_ptr
              /\ eng'.pb_p8_ptr = eng.pb_p8_ptr
              /\ eng'.paused_sample_ptr = eng.paused_sample_ptr
              /\ AllSilence' ]_vars

C39_Witness ==
  /\ eng.pb_state = "PB_Paused"
  /\ hal.dma_running
  /\ hal.dma_next = FIRST
  /\ obs.pauses >= 1
  /\ ~ obs.pause_raced
  /\ eng.stop_requested = 0
  /\ AllSilence

(* ------------- the fade sample counts under any configuration ----------- *)
MaxFadeCalls    == 2                          \* configuration calls in one run
FadeCountTimes  == {-20, 0, 1, 150, 6000}     \* ms; 0 stands for any time below 1 ms
FadeCountSpeeds == {0, 1, 22025, 48000}

FadeCountInit ==
  /\ eng = [InitEng EXCEPT !.AudioEngine_ReadVolume = 1]
  /\ hal = InitHal
  /\ obs = InitObs
  /\ fg  = InitFg

(* the setters are callable before and during a session *)
FadeCountConfigurable == fg.pc = "main" /\ obs.cfgs < MaxFadeCalls

FadeCount_SetFadeInTime ==
  /\ FadeCountConfigurable
  /\ \E ms \in FadeCountTimes :
       Commit([Quiet(Machine) EXCEPT !.cfgs = @ + 1, !.fadein_time_ms = ms,
                 !.fadein_samples = FadeTimeToSamples(ms, eng.I2S_PlaybackSpeed)])
  /\ UNCHANGED fg

FadeCount_SetFadeOutTime ==
  /\ FadeCountConfigurable
  /\ \E ms \in FadeCountTimes :
       Commit([Quiet(Machine) EXCEPT !.cfgs = @ + 1, !.fadeout_time_ms = ms,
                 !.fadeout_samples = FadeTimeToSamples(ms, eng.I2S_PlaybackSpeed)])
  /\ UNCHANGED fg

FadeCount_SetPauseFadeTime ==
  /\ FadeCountConfigurable
  /\ \E ms \in FadeCountTimes :
       Commit([Quiet(Machine) EXCEPT !.cfgs = @ + 1, !.pause_fadeout_time_ms = ms,
                 !.pause_fadeout_samples = FadeTimeToSamples(ms, eng.I2S_PlaybackSpeed)])
  /\ UNCHANGED fg

FadeCount_SetResumeFadeTime ==
  /\ FadeCountConfigurable
  /\ \E ms \in FadeCountTimes :
       Commit([Quiet(Machine) EXCEPT !.cfgs = @ + 1, !.pause_fadein_time_ms = ms,
                 !.pause_fadein_samples = FadeTimeToSamples(ms, eng.I2S_PlaybackSpeed)])
  /\ UNCHANGED fg

FadeCount_SetPlaybackSpeed ==
  /\ FadeCountConfigurable
  /\ \E speed \in FadeCountSpeeds :
       Commit([Returned(Machine, "SetPlaybackSpeed", eng.pb_state)
                 EXCEPT !.cfgs = @ + 1, !.I2S_PlaybackSpeed = speed])
  /\ UNCHANGED fg

FadeCount_PlaySample ==
  /\ fg.pc = "main" /\ obs.sessions = 0
  /\ \E sample_depth \in {8, 16}, mode \in Modes, playback_speed \in FadeCountSpeeds :
       \E r \in {PlaySample(Machine, SrcBase, MaxLen, playback_speed, sample_depth,
                            mode, TRUE, AUDIO_INT16_MAX)} :
         Commit(Returned(r.st, "PlaySample", r.ret))
  /\ UNCHANGED fg

FadeCountNext ==
  \/ FadeCount_SetFadeInTime
  \/ FadeCount_SetFadeOutTime
  \/ FadeCount_SetPauseFadeTime
  \/ FadeCount_SetResumeFadeTime
  \/ FadeCount_SetPlaybackSpeed
  \/ FadeCount_PlaySample

FadeCountSpec == FadeCountInit /\ [][FadeCountNext]_vars

(* C40: in every reachable state fadein_samples, fadeout_samples,          *)
(* pause_fadeout_samples and pause_fadein_samples are at least 1, also     *)
(* after PlaySample with playback_speed 0 and after the setters were       *)
(* called with zero, negative or sub-millisecond times.                    *)
C40_FadeSampleCountsAtLeastOne ==
  /\ eng.fadein_samples >= 1
  /\ eng.fadeout_samples >= 1
  /\ eng.pause_fadeout_samples >= 1
  /\ eng.pause_fadein_samples >= 1

C40_Witness ==
  /\ obs.sessions = 1
  /\ eng.I2S_PlaybackSpeed = 0
  /\ eng.fadein_time_ms < 1
  /\ eng.pause_fadeout_time_ms < 1
  /\ eng.fadein_samples = 1
  /\ eng.pause_fadeout_samples = 1

====
